---- MODULE Spec2Model ----
(***************************************************************************)
(* Model of hsgame/game_objects.py: the Bindable event bus, the Deck, and  *)
(* the Character / Minion / Hero / Player / Game combat and turn engine.   *)
(***************************************************************************)
EXTENDS Integers, Sequences, FiniteSets, TLC

(***************************************************************************)
(* Bounds                                                                  *)
(***************************************************************************)
MaxHandlers == 3      \* Handler objects created on the bus in one run
MaxCalls == 2         \* invocations counted per Handler object
NumFunctions == 2     \* distinct callback references
DeckSize == 3         \* slots of the Deck tried alone (30 in the source, scaled down)
GameDeckSize == 8     \* slots of each player's Deck in a Game (30 in the source)
MaxAttackers == 1     \* minions on the attacking side of a combat position
MaxDefenders == 2     \* minions on the defending side of a combat position
MaxTurns == 3         \* turns started in one run of the turn loop
MaxSummons == 2       \* minions put on the board in one run of the turn loop
MaxTurnCalls == 2     \* calls the agent makes on the game in one turn
MaxIdleTurns == 30    \* turns of a game in which the agents do nothing

(***************************************************************************)
(* State                                                                   *)
(***************************************************************************)
VARIABLES
    \* a Bindable
    events,      \* self.events[event]: Handler objects in registration order
    handlers,    \* every Handler object created: function, remove, active
    stack,       \* call stack: running trigger loops and running callbacks
    invoked,     \* per Handler object, how many times its function was called
    raised,      \* an exception escaped from the outermost trigger
    \* a Deck
    deck,        \* the Deck object: cards, used, left
    history,     \* the last two Deck calls: operation, argument, outcome
    \* a Game
    game,        \* the Game object with its players, heroes and minions
    call,        \* the last call made on the Game: operation, arguments, outcome
    phase,       \* position of the turn loop: "between" turns or in a "turn"
    turn,        \* number of turns started
    thaw,        \* per minion, how far a freeze made in the opponent's turn got
    obs          \* what was observed of the calls: attacks completed this turn

busVars == <<events, handlers, stack, invoked, raised>>
deckVars == <<deck, history>>
gameVars == <<game, call, phase, turn, thaw, obs>>
vars == <<busVars, deckVars, gameVars>>

(***************************************************************************)
(* Generic helpers                                                         *)
(***************************************************************************)
Range(s) == {s[k] : k \in 1..Len(s)}

\* the function f over 1..n as the sequence <<f[1], ..., f[n]>>
AsSeq(f) == f \o <<>>

RemoveAt(s, k) == AsSeq([j \in 1..(Len(s) - 1) |-> IF j < k THEN s[j] ELSE s[j + 1]])

\* position of the first occurrence of x in s (list.index / list.remove)
FirstPos(s, x) == CHOOSE k \in 1..Len(s) : s[k] = x /\ \A j \in 1..(k - 1) : s[j] # x

\* list.remove(x) for x known to be in the list
RemoveFirst(s, x) == RemoveAt(s, FirstPos(s, x))

(***************************************************************************)
(* Bindable: the event bus.  One bus and one event name are modelled; the  *)
(* registry entry of that event is the list `events' (an empty list stands *)
(* for the absent dictionary key).                                         *)
(***************************************************************************)

Functions == 1..NumFunctions

Handler(function, remove) == [function |-> function, remove |-> remove, active |-> FALSE]

TriggerFrame(copy) == [kind |-> "trigger", copy |-> copy, i |-> 1, h |-> 0, inv |-> <<>>]
CallFrame(h) == [kind |-> "call", copy |-> <<>>, i |-> 0, h |-> h, inv |-> <<>>]

Top == stack[Len(stack)]
Pop == SubSeq(stack, 1, Len(stack) - 1)

\* code that may call the bus: the program outside any dispatch, or a callback
AtTopLevel == stack = <<>>
InCallback == stack # <<>> /\ Top.kind = "call"

NewHandler(function, remove) ==
    /\ Len(handlers) < MaxHandlers
    /\ handlers' = Append(handlers, Handler(function, remove))
    /\ invoked' = Append(invoked, 0)
    /\ events' = Append(events, Len(handlers) + 1)
    /\ UNCHANGED <<stack, raised>>
    /\ UNCHANGED <<deckVars, gameVars>>

bind(function) == NewHandler(function, FALSE)

bind_once(function) == NewHandler(function, TRUE)

unbind(function) ==
    /\ events' = SelectSeq(events, LAMBDA h : handlers[h].function # function)
    /\ UNCHANGED <<handlers, stack, invoked, raised>>
    /\ UNCHANGED <<deckVars, gameVars>>

\* trigger(event): entry, the loop iterates over a copy of the registry entry
trigger ==
    /\ stack' = Append(stack, TriggerFrame(events))
    /\ UNCHANGED <<events, handlers, invoked, raised>>
    /\ UNCHANGED <<deckVars, gameVars>>

\* a callback calls trigger for its own event (once per invocation)
callback_trigger ==
    /\ InCallback
    /\ Top.i = 0
    /\ stack' = Append([stack EXCEPT ![Len(stack)].i = 1], TriggerFrame(events))
    /\ UNCHANGED <<events, handlers, invoked, raised>>
    /\ UNCHANGED <<deckVars, gameVars>>

InLoop == stack # <<>> /\ Top.kind = "trigger" /\ Top.i <= Len(Top.copy)

\* loop body, handler.active is set: the handler is skipped
trigger_skip ==
    /\ InLoop
    /\ handlers[Top.copy[Top.i]].active
    /\ stack' = [stack EXCEPT ![Len(stack)].i = @ + 1]
    /\ UNCHANGED <<events, handlers, invoked, raised>>
    /\ UNCHANGED <<deckVars, gameVars>>

\* loop body, handler.active is clear: mark it active and call its function
trigger_invoke ==
    /\ InLoop
    /\ LET h == Top.copy[Top.i] IN
        /\ ~handlers[h].active
        /\ invoked[h] < MaxCalls
        /\ handlers' = [handlers EXCEPT ![h].active = TRUE]
        /\ invoked' = [invoked EXCEPT ![h] = @ + 1]
        /\ stack' = Append([stack EXCEPT ![Len(stack)].inv = Append(@, h)], CallFrame(h))
    /\ UNCHANGED <<events, raised>>
    /\ UNCHANGED <<deckVars, gameVars>>

\* the function returned: clear active; a one-shot handler is removed from the
\* registry entry, and list.remove raises when it is not there (the exception
\* unwinds every frame, leaving the active flags of the unwound callbacks set)
handler_return(requireTrigger) ==
    /\ InCallback
    /\ requireTrigger => Top.i = 1
    /\ LET h == Top.h IN
        /\ handlers' = [handlers EXCEPT ![h].active = FALSE]
        /\ IF handlers[h].remove
           THEN IF h \in Range(events)
                THEN /\ events' = RemoveFirst(events, h)
                     /\ stack' = [Pop EXCEPT ![Len(Pop)].i = @ + 1]
                     /\ UNCHANGED raised
                ELSE /\ stack' = <<>>
                     /\ raised' = TRUE
                     /\ UNCHANGED events
           ELSE /\ stack' = [Pop EXCEPT ![Len(Pop)].i = @ + 1]
                /\ UNCHANGED <<events, raised>>
    /\ UNCHANGED <<deckVars, gameVars>>
    /\ UNCHANGED invoked
    /\ UNCHANGED <<deckVars, gameVars>>

\* the loop is over: trigger returns to its caller
trigger_return ==
    /\ stack # <<>>
    /\ Top.kind = "trigger"
    /\ Top.i > Len(Top.copy)
    /\ stack' = Pop
    /\ UNCHANGED <<events, handlers, invoked, raised>>
    /\ UNCHANGED <<deckVars, gameVars>>


(***************************************************************************)
(* Deck: a fixed list of cards, a parallel used mask and a remaining count *)
(* A deck is the record [cards, used, left]; slots are numbered from 1.    *)
(***************************************************************************)

\* card references; 0 is a card that is in no deck
Cards == 1..DeckSize
ForeignCard == 0

Slots == 1..DeckSize

\* Deck.__init__; the caller supplies a full deck, whose length stands for 30
Deck(cards) == [cards |-> cards, used |-> AsSeq([k \in 1..Len(cards) |-> FALSE]), left |-> Len(cards)]

Deck_can_draw(d) == d.left > 0

\* the while loop of draw: i is the number of slots walked, count the number
\* of unused slots among them; the result is i when the loop ends, or 0 when
\* the walk runs past the last slot (IndexError)
\* mutant: the walk counts every slot, used or not
draw_walk_counts_used(used, index, count, i) ==
    IF index + 1 > Len(used) THEN 0 ELSE index + 1

RECURSIVE draw_walk(_, _, _, _)
draw_walk(used, index, count, i) ==
    IF count <= index
    THEN IF i >= Len(used)
         THEN 0
         ELSE draw_walk(used, index, IF ~used[i + 1] THEN count + 1 ELSE count, i + 1)
    ELSE i

Raise(d) == [ok |-> FALSE, deck |-> d, card |-> ForeignCard, slot |-> 0]

\* Deck.draw with random_func(0, left - 1) = index
Deck_draw(d, index) ==
    IF ~Deck_can_draw(d)
    THEN Raise(d)
    ELSE LET i == draw_walk(d.used, index, 0, 0) IN
         IF i = 0
         THEN Raise(d)
         ELSE [ok |-> TRUE,
               deck |-> [d EXCEPT !.used[i] = TRUE, !.left = @ - 1],
               card |-> d.cards[i],
               slot |-> i]

\* the slot put_back looks at: the first one that holds the card
put_back_slot(d, card) ==
    IF \E k \in 1..Len(d.cards) : d.cards[k] = card
    THEN CHOOSE k \in 1..Len(d.cards) : d.cards[k] = card /\ \A j \in 1..(k - 1) : d.cards[j] # card
    ELSE 0

\* mutant: the slot is un-marked but the remaining count is not raised
Deck_put_back_keeps_left(d, card) ==
    LET k == put_back_slot(d, card) IN
    IF k = 0
    THEN Raise(d)
    ELSE IF ~d.used[k]
         THEN Raise(d)
         ELSE [ok |-> TRUE, deck |-> [d EXCEPT !.used[k] = FALSE], card |-> card, slot |-> k]

Deck_put_back(d, card) ==
    LET k == put_back_slot(d, card) IN
    IF k = 0
    THEN Raise(d)
    ELSE IF ~d.used[k]
         THEN Raise(d)
         ELSE [ok |-> TRUE,
               deck |-> [d EXCEPT !.used[k] = FALSE, !.left = @ + 1],
               card |-> card,
               slot |-> k]

Call(op, arg, r, before) ==
    [op |-> op, arg |-> arg, ok |-> r.ok, card |-> r.card, slot |-> r.slot,
     used |-> before.used, left |-> before.left]

Record(c) == IF history = <<>> THEN <<c>> ELSE <<history[Len(history)], c>>

\* a draw; the random source answers within the range it was asked for
DeckDraw(index) ==
    /\ Deck_can_draw(deck)
    /\ index \in 0..(deck.left - 1)
    /\ LET r == Deck_draw(deck, index) IN
        /\ deck' = r.deck
        /\ history' = Record(Call("draw", index, r, deck))
    /\ UNCHANGED <<busVars, gameVars>>

\* a draw on an empty deck raises before the random source is asked
DeckDrawEmpty ==
    /\ ~Deck_can_draw(deck)
    /\ LET r == Deck_draw(deck, 0) IN
        /\ deck' = r.deck
        /\ history' = Record(Call("draw", 0, r, deck))
    /\ UNCHANGED <<busVars, gameVars>>

DeckPutBack(card) ==
    LET r == Deck_put_back(deck, card) IN
    /\ deck' = r.deck
    /\ history' = Record(Call("put_back", card, r, deck))
    /\ UNCHANGED <<busVars, gameVars>>

(***************************************************************************)
(* Character, Hero and Minion.  game.characters is the heap of Character   *)
(* objects: characters[1] and characters[2] are the heroes of players[0]   *)
(* and players[1] (players 1 and 2 here), later entries are Minion objects *)
(* in creation order.  Board lists and the pending queue hold references   *)
(* (indices into the heap).                                                *)
(***************************************************************************)
HeroHealth == 30
MaxHand == 10
MaxMana == 10

PlayerIds == {1, 2}
HeroOf(p) == p
NoSource == 0     \* an attacker that is no Character: None or a card

\* events for which the model binds card effects (RunEffect lists the effects)
HandledEvents == {"attack_minion", "attacked", "physically_damaged", "did_damage"}
NoHandlers == [e \in HandledEvents |-> "none"]

Character(kind, attack_power, health, player) ==
    [kind |-> kind, health |-> health, max_health |-> health,
     attack_power |-> attack_power, active |-> FALSE, dead |-> FALSE,
     wind_fury |-> FALSE, used_wind_fury |-> FALSE, frozen |-> FALSE,
     frozen_this_turn |-> FALSE, temp_attack |-> 0, player |-> player,
     immune |-> FALSE, delayed |-> <<>>, stealth |-> FALSE,
     armour |-> 0,
     taunt |-> FALSE, index |-> -1, charge |-> FALSE, spell_power |-> 0,
     divine_shield |-> FALSE, deathrattle |-> FALSE,
     battlecry |-> "none", silencers |-> <<>>,
     bound |-> NoHandlers]

Hero(player) == Character("hero", 0, HeroHealth, player)

Minion(attack, health) == Character("minion", attack, health, 0)

Player(d) ==
    [mana |-> 0, max_mana |-> 0, deck |-> d, spell_power |-> 0, minions |-> <<>>,
     hand |-> <<>>, fatigue |-> 0, secrets |-> <<>>, mana_filters |-> <<>>]

\* the buses events fire on: a character's own bus is its reference, the
\* bus of player p is PlayerBus(p), the Game's bus is GameBus
GameBus == 0
PlayerBus(p) == -p

\* g.log is what the current call did so far, in order: the events it
\* triggered and the steps the claims name
Fire(g, on, event) == [g EXCEPT !.log = Append(@, <<"event", event, on>>)]
Step(g, on, what) == [g EXCEPT !.log = Append(@, <<"step", what, on>>)]

IsCharacter(g, c) == c \in 1..Len(g.characters)
IsMinionObject(g, c) == IsCharacter(g, c) /\ g.characters[c].kind = "minion"
OnBoard(g, m) == IsMinionObject(g, m) /\ m \in Range(g.players[g.characters[m].player].minions)

can_attack(g, c) ==
    /\ g.characters[c].attack_power + g.characters[c].temp_attack > 0
    /\ g.characters[c].active
    /\ ~g.characters[c].frozen

can_be_attacked(g, m) == ~g.characters[m].stealth

delayed_trigger(g, c, event) ==
    [g EXCEPT !.characters[c].delayed = Append(@, event),
              !.delayed_minions = Append(@, c),
              !.log = Append(@, <<"delay", event, c>>)]

increase_temp_attack(g, c, amount) ==
    [Fire(g, c, "attack_increased") EXCEPT !.characters[c].temp_attack = @ + amount]

freeze(g, c) == [g EXCEPT !.characters[c].frozen_this_turn = TRUE, !.characters[c].frozen = TRUE]

\* the one-shot 'silenced' handlers that increase_attack, increase_health and
\* decrease_health bind: a silencer is the closure's kind and its amount
Silencer(kind, amount) == [kind |-> kind, amount |-> amount]

increase_attack(g, c, amount) ==
    [Fire(g, c, "attack_increased") EXCEPT
        !.characters[c].attack_power = @ + amount,
        !.characters[c].silencers = Append(@, Silencer("attack", amount))]

increase_health(g, c, amount) ==
    [Fire(g, c, "health_increased") EXCEPT
        !.characters[c].max_health = @ + amount,
        !.characters[c].health = @ + amount,
        !.characters[c].silencers = Append(@, Silencer("health_up", amount))]

decrease_health(g, c, amount) ==
    LET max_health == g.characters[c].max_health - amount IN
    [Fire(g, c, "health_decreased") EXCEPT
        !.characters[c].max_health = max_health,
        !.characters[c].health = IF @ > max_health THEN max_health ELSE @,
        !.characters[c].silencers = Append(@, Silencer("health_down", amount))]

heal(g, c, amount) ==
    LET health == g.characters[c].health + amount IN
    [Fire(g, c, "healed") EXCEPT
        !.characters[c].health = IF health > g.characters[c].max_health
                                 THEN g.characters[c].max_health ELSE health]

\* the body of one silence closure, run on the character record
run_silencer(ch, h) ==
    CASE h.kind = "attack" -> [ch EXCEPT !.attack_power = @ - h.amount]
      [] h.kind = "health_up" ->
            LET max_health == ch.max_health - h.amount IN
            [ch EXCEPT !.max_health = max_health,
                       !.health = IF max_health < @ THEN max_health ELSE @]
      [] OTHER -> [ch EXCEPT !.max_health = @ + h.amount]

\* trigger('silenced'): the one-shot handlers run in the order they were
\* bound and leave the registry
RECURSIVE run_silencers(_, _)
run_silencers(ch, k) ==
    IF k > Len(ch.silencers)
    THEN [ch EXCEPT !.silencers = <<>>]
    ELSE run_silencers(run_silencer(ch, ch.silencers[k]), k + 1)

Character_silence(g, c) ==
    [Fire(g, c, "silenced") EXCEPT !.characters[c] =
        [run_silencers(@, 1) EXCEPT !.wind_fury = FALSE,
                                    !.frozen = FALSE,
                                    !.frozen_this_turn = FALSE]]

Minion_silence(g, c) ==
    LET g1 == Character_silence(Step(g, c, "silence"), c)
        owner == g.characters[c].player
    IN [g1 EXCEPT !.characters[c].taunt = FALSE,
                  !.characters[c].stealth = FALSE,
                  !.characters[c].charge = FALSE,
                  !.players[owner].spell_power = @ - g.characters[c].spell_power,
                  !.characters[c].spell_power = 0,
                  !.characters[c].divine_shield = FALSE,
                  !.characters[c].deathrattle = FALSE]

silence(g, c) == IF g.characters[c].kind = "minion" THEN Minion_silence(g, c) ELSE Character_silence(g, c)

game_over(g) == [g EXCEPT !.game_ended = TRUE]

\* Game.remove_minion: list.remove raises when the minion is not in the list
remove_minion(g, m, p) ==
    IF m \in Range(g.players[p].minions)
    THEN [g EXCEPT !.players[p].minions = RemoveFirst(@, m)]
    ELSE [g EXCEPT !.exception = "ValueError"]

remove_from_board(g, m) ==
    LET owner == g.characters[m].player
        board == Range(g.players[owner].minions)
        g1 == [g EXCEPT !.players[owner].spell_power = @ - g.characters[m].spell_power]
        g2 == [g1 EXCEPT !.characters =
                 AsSeq([c \in 1..Len(g.characters) |->
                    IF c \in board /\ g.characters[c].index > g.characters[m].index
                    THEN [g.characters[c] EXCEPT !.index = @ - 1]
                    ELSE g.characters[c]])]
    IN Step(remove_minion(g2, m, owner), m, "removed")

Character_die(g, c, by) ==
    Step([delayed_trigger(g, c, "died") EXCEPT !.characters[c].dead = TRUE], c, "dead")

\* the "died" handler that die binds once is the silence that delayed_event
\* runs; a deathrattle is a card effect, of which the model keeps the call
Minion_die(g, c, by) ==
    LET deathrattle == g.characters[c].deathrattle
        g1 == Fire(Character_die(g, c, by), GameBus, "minion_died")
        g2 == IF deathrattle THEN Step(g1, c, "deathrattle") ELSE g1
    IN remove_from_board(g2, c)

Hero_die(g, c, by) == Character_die(g, c, by)

die(g, c, by) == IF g.characters[c].kind = "minion" THEN Minion_die(g, c, by) ELSE Hero_die(g, c, by)

Character_damage(g, c, amount, attacker) ==
    IF g.characters[c].immune
    THEN g
    ELSE LET g1 == Fire(delayed_trigger(g, c, "damaged"), c, "secret_damaged")
             g2 == [g1 EXCEPT !.characters[c].health = @ - amount]
             g3 == IF IsMinionObject(g2, attacker)
                   THEN delayed_trigger(g2, attacker, "did_damage")
                   ELSE g2
         IN IF g3.characters[c].health <= 0 THEN die(g3, c, attacker) ELSE g3

\* mutant: the shield is cleared and the damage is dealt all the same
Minion_damage_through_shield(g, c, amount, attacker) ==
    Character_damage([g EXCEPT !.characters[c].divine_shield = FALSE], c, amount, attacker)

Minion_damage(g, c, amount, attacker) ==
    IF g.characters[c].divine_shield
    THEN [g EXCEPT !.characters[c].divine_shield = FALSE]
    ELSE Character_damage(g, c, amount, attacker)

Hero_damage(g, c, amount, attacker) ==
    LET armour == g.characters[c].armour - amount IN
    IF armour < 0
    THEN Character_damage([g EXCEPT !.characters[c].armour = 0], c, -armour, attacker)
    ELSE [g EXCEPT !.characters[c].armour = armour]

damage(g, c, amount, attacker) ==
    IF g.characters[c].kind = "minion"
    THEN Minion_damage(g, c, amount, attacker)
    ELSE Hero_damage(g, c, amount, attacker)

\* a card effect bound as a handler on character self; other is the event's argument
RunEffect(g, effect, self, other) ==
    CASE effect = "gain_attack" -> [g EXCEPT !.characters[self].attack_power = @ + 1]
      [] effect = "gain_temp_attack" -> increase_temp_attack(g, self, 1)
      [] effect = "buff_other" ->
            IF IsCharacter(g, other)
            THEN [g EXCEPT !.characters[other].attack_power = @ + 1]
            ELSE g
      [] effect = "damage_other" ->
            IF IsCharacter(g, other) THEN damage(g, other, 2, self) ELSE g
      [] effect = "recoil" -> damage(g, self, 1, NoSource)
      [] OTHER -> g

\* self.trigger(event, other) on a character's bus
Character_trigger(g, c, event, other) ==
    RunEffect(Fire(g, c, event), g.characters[c].bound[event], c, other)

\* the handlers of a delayed event: a card effect bound to it, then what the
\* engine itself binds: a hero's "died" is bound to game_over, a minion's
\* "died" to its own silence (bound once by die)
delayed_event(g, c, event) ==
    LET g1 == Fire(g, c, event)
        g2 == IF event \in HandledEvents
              THEN RunEffect(g1, g.characters[c].bound[event], c, NoSource)
              ELSE g1
    IN IF event = "died"
       THEN IF g.characters[c].kind = "hero" THEN game_over(g2) ELSE Minion_silence(g2, c)
       ELSE g2

\* the for loop of activate_delayed runs over the list as it grows
RECURSIVE flush_delayed(_, _, _)
flush_delayed(g, c, k) ==
    IF k > Len(g.characters[c].delayed)
    THEN g
    ELSE flush_delayed(delayed_event(g, c, g.characters[c].delayed[k]), c, k + 1)

\* mutant: the flush runs over the list as it was when the flush began
RECURSIVE flush_snapshot(_, _, _, _)
flush_snapshot(g, c, pending, k) ==
    IF k > Len(pending)
    THEN g
    ELSE flush_snapshot(delayed_event(g, c, pending[k]), c, pending, k + 1)

activate_delayed_snapshot(g, c) ==
    [flush_snapshot(g, c, g.characters[c].delayed, 1) EXCEPT !.characters[c].delayed = <<>>]

activate_delayed(g, c) == [flush_delayed(g, c, 1) EXCEPT !.characters[c].delayed = <<>>]

\* physical_damage, then minion_damage: the attacker is a Character, never a Player
physical_damage(g, c, amount, attacker) ==
    damage(Fire(Character_trigger(g, c, "physically_damaged", attacker), c, "minion_damaged"),
           c, amount, attacker)

(***************************************************************************)
(* Character.attack                                                        *)
(***************************************************************************)
Power(g, c) == g.characters[c].attack_power + g.characters[c].temp_attack

\* mutant: a taunt minion restricts the targets, and is one, even when it is stealthed
attack_targets_stealth_taunt(g) ==
    LET enemies == g.players[g.other_player].minions
        targets == SelectSeq(enemies, LAMBDA m : can_be_attacked(g, m))
        found_taunt == \E k \in 1..Len(enemies) : g.characters[enemies[k]].taunt
    IN IF found_taunt
       THEN SelectSeq(enemies, LAMBDA m : g.characters[m].taunt)
       ELSE Append(targets, HeroOf(g.other_player))

\* the candidate list attack builds for choose_target
attack_targets(g) ==
    LET enemies == g.players[g.other_player].minions
        targets == SelectSeq(enemies, LAMBDA m : can_be_attacked(g, m))
        found_taunt == \E k \in 1..Len(enemies) :
                          g.characters[enemies[k]].taunt /\ can_be_attacked(g, enemies[k])
    IN IF found_taunt
       THEN SelectSeq(targets, LAMBDA m : g.characters[m].taunt)
       ELSE Append(targets, HeroOf(g.other_player))

\* mutant: the attacker is deactivated by every attack, wind fury or not
attack_finish_deactivates(g, self) ==
    [activate_delayed(g, self) EXCEPT !.characters[self].active = FALSE,
                                      !.characters[self].stealth = FALSE]

\* the end of attack: flush the attacker, wind fury bookkeeping, stealth
attack_finish(g, self) ==
    LET g1 == activate_delayed(g, self) IN
    IF g1.characters[self].wind_fury /\ ~g1.characters[self].used_wind_fury
    THEN [g1 EXCEPT !.characters[self].used_wind_fury = TRUE,
                    !.characters[self].stealth = FALSE]
    ELSE [g1 EXCEPT !.characters[self].active = FALSE,
                    !.characters[self].stealth = FALSE]

Attacked(g, targets, target, my_power, target_power, exchanged) ==
    [game |-> g, targets |-> targets, target |-> target, my_power |-> my_power,
     target_power |-> target_power, exchanged |-> exchanged]

\* the branch of attack for a Minion target; my_power and target_power record
\* attack_power + temp_attack of both sides after the reactions
attack_minion(g, self, targets, target) ==
    LET g1 == Character_trigger(g, self, "attack_minion", target)
        g2 == Character_trigger(g1, target, "attacked", self)
        my_attack == g2.characters[self].attack_power + g2.characters[self].temp_attack
        g3 == physical_damage(g2, self, g2.characters[target].attack_power, target)
        g4 == physical_damage(g3, target, my_attack, self)
        g5 == activate_delayed(g4, target)
    IN IF g2.characters[self].dead
       THEN Attacked(g2, targets, target, Power(g2, self), Power(g2, target), FALSE)
       ELSE Attacked(attack_finish(g5, self), targets, target,
                     Power(g2, self), Power(g2, target), TRUE)

\* the branch of attack for the opposing hero
attack_player(g, self, targets, target) ==
    LET g1 == Fire(g, self, "attack_player")
        g2 == Character_trigger(g1, target, "attacked", self)
        g4 == physical_damage(g2, target, Power(g2, self), self)
        g5 == activate_delayed(g4, target)
    IN IF g2.characters[self].dead
       THEN Attacked(g2, targets, target, Power(g2, self), Power(g2, target), FALSE)
       ELSE Attacked(attack_finish(g5, self), targets, target,
                     Power(g2, self), Power(g2, target), TRUE)

\* self.attack() where the agent's choose_target answers targets[choice]
Character_attack(g, self, choice) ==
    IF ~can_attack(g, self)
    THEN Attacked([g EXCEPT !.exception = "GameException"], <<>>, 0, 0, 0, FALSE)
    ELSE LET targets == attack_targets(g)
             target == targets[choice]
             g1 == Step(Fire(g, PlayerBus(g.characters[self].player), "attacking"),
                        self, "choose_target")
         IN IF g.characters[target].kind = "minion"
            THEN attack_minion(g1, self, targets, target)
            ELSE attack_player(g1, self, targets, target)

\* Hero.attack fires "attacking" on the hero's bus, then Character.attack
Hero_attack(g, self, choice) == Character_attack(Fire(g, self, "attacking"), self, choice)

attack(g, self, choice) ==
    IF g.characters[self].kind = "hero"
    THEN Hero_attack(g, self, choice)
    ELSE Character_attack(g, self, choice)

(***************************************************************************)
(* Player and Game                                                         *)
(***************************************************************************)
FirstDeal == 3
SecondDeal == 4

\* what random_func(0, hi) answers: the lowest or the highest value allowed
RandomModes == {"lo", "hi"}
RandomAnswer(mode, hi) == IF mode = "lo" THEN 0 ELSE hi

\* mutant: a draw on an empty deck counts the fatigue but deals no damage
Player_draw_painless(g, p, rnd) ==
    LET d == g.players[p].deck IN
    IF Deck_can_draw(d)
    THEN LET r == Deck_draw(d, RandomAnswer(rnd, d.left - 1))
             g1 == Fire([g EXCEPT !.players[p].deck = r.deck], PlayerBus(p), "card_drawn")
         IN IF Len(g.players[p].hand) < MaxHand
            THEN [g1 EXCEPT !.players[p].hand = Append(@, r.card)]
            ELSE Fire(g1, PlayerBus(p), "card_destroyed")
    ELSE Fire([g EXCEPT !.players[p].fatigue = @ + 1], PlayerBus(p), "fatigue_damage")

Player_draw(g, p, rnd) ==
    LET d == g.players[p].deck IN
    IF Deck_can_draw(d)
    THEN LET r == Deck_draw(d, RandomAnswer(rnd, d.left - 1))
             g1 == Fire([g EXCEPT !.players[p].deck = r.deck], PlayerBus(p), "card_drawn")
         IN IF Len(g.players[p].hand) < MaxHand
            THEN [g1 EXCEPT !.players[p].hand = Append(@, r.card)]
            ELSE Fire(g1, PlayerBus(p), "card_destroyed")
    ELSE LET g1 == Fire([g EXCEPT !.players[p].fatigue = @ + 1], PlayerBus(p), "fatigue_damage")
             g2 == Hero_damage(g1, HeroOf(p), g1.players[p].fatigue, NoSource)
         IN activate_delayed(g2, HeroOf(p))

\* mutant: the card leaves the hand but its deck slot stays used
Player_put_back_hand_only(g, p, card) ==
    IF card \notin Range(g.players[p].hand)
    THEN [g EXCEPT !.exception = "ValueError"]
    ELSE [g EXCEPT !.players[p].hand = RemoveFirst(@, card)]

Player_put_back(g, p, card) ==
    IF card \notin Range(g.players[p].hand)
    THEN [g EXCEPT !.exception = "ValueError"]
    ELSE LET r == Deck_put_back(g.players[p].deck, card) IN
         IF r.ok
         THEN Fire([g EXCEPT !.players[p].hand = RemoveFirst(@, card), !.players[p].deck = r.deck],
                   PlayerBus(p), "card_put_back")
         ELSE [g EXCEPT !.players[p].hand = RemoveFirst(@, card),
                        !.exception = "GameException"]

RECURSIVE draw_each(_, _, _, _)
draw_each(g, p, rnds, k) ==
    IF k > Len(rnds) THEN g ELSE draw_each(Player_draw(g, p, rnds[k]), p, rnds, k + 1)

GameCards == AsSeq([k \in 1..GameDeckSize |-> k])

\* Game.__init__ on two decks of distinct cards; deal1 and deal2 are the
\* answers of the random source to the draws of the first and second player
Game(deal1, deal2) ==
    LET g == [players |-> <<Player(Deck(GameCards)), Player(Deck(GameCards))>>,
              characters |-> <<Hero(1), Hero(2)>>,
              delayed_minions |-> <<>>,
              current_player |-> 1,
              other_player |-> 2,
              game_ended |-> FALSE,
              exception |-> "none",
              log |-> <<>>]
    IN draw_each(draw_each(g, 1, deal1, 1), 2, deal2, 1)

\* first loop of a mulligan: one draw per card that is not kept
RECURSIVE mulligan_draw(_, _, _, _, _)
mulligan_draw(g, p, keep, rnd, card_index) ==
    IF card_index > Len(keep)
    THEN g
    ELSE mulligan_draw(IF keep[card_index] THEN g ELSE Player_draw(g, p, rnd[card_index]),
                       p, keep, rnd, card_index + 1)

\* put_back_cards: the cards of the hand at the positions that are not kept
Rejected(hand, keep) ==
    LET idx == SelectSeq(AsSeq([k \in 1..Len(keep) |-> k]), LAMBDA k : ~keep[k])
    IN AsSeq([k \in 1..Len(idx) |-> hand[idx[k]]])

RECURSIVE put_back_each(_, _, _, _)
put_back_each(g, p, cards, k) ==
    IF k > Len(cards) \/ g.exception # "none"
    THEN g
    ELSE put_back_each(Player_put_back(g, p, cards[k]), p, cards, k + 1)

mulligan(g, p, keep, rnd) ==
    LET g1 == mulligan_draw(Fire(g, GameBus, "kept_cards"), p, keep, rnd, 1)
    IN put_back_each(g1, p, Rejected(g1.players[p].hand, keep), 1)

\* keep[p] is the answer of do_card_check of player p, rnd[p] the answers of
\* the random source to that player's replacement draws
pre_game(g, keep, rnd) ==
    LET g1 == mulligan(g, 1, keep[1], rnd[1])
    IN IF g1.exception # "none" THEN g1 ELSE mulligan(g1, 2, keep[2], rnd[2])

\* mutant: start leaves current_player as the constructor set it
start_keeps_first(g, keep, rnd) == pre_game(g, keep, rnd)

\* start() up to the head of its loop: pre_game, then players[1] is made the
\* current player
start(g, keep, rnd) ==
    LET g1 == pre_game(g, keep, rnd)
    IN IF g1.exception # "none" THEN g1 ELSE [g1 EXCEPT !.current_player = 2]

\* mutant: max_mana grows at every turn, without a cap
start_turn_uncapped(g, rnd) ==
    LET cur == IF g.current_player = 1 THEN 2 ELSE 1
        oth == IF g.current_player = 1 THEN 1 ELSE 2
        g1 == [g EXCEPT !.current_player = cur, !.other_player = oth,
                        !.players[cur].max_mana = @ + 1]
        g3 == [g1 EXCEPT !.players[cur].mana = g1.players[cur].max_mana]
    IN Player_draw(Fire(g3, PlayerBus(cur), "turn_started"), cur, rnd)

start_turn(g, rnd) ==
    LET cur == IF g.current_player = 1 THEN 2 ELSE 1
        oth == IF g.current_player = 1 THEN 1 ELSE 2
        g1 == [g EXCEPT !.current_player = cur, !.other_player = oth]
        g2 == IF g1.players[cur].max_mana < MaxMana
              THEN [g1 EXCEPT !.players[cur].max_mana = @ + 1]
              ELSE g1
        g3 == [g2 EXCEPT !.players[cur].mana = g2.players[cur].max_mana]
    IN Player_draw(Fire(g3, PlayerBus(cur), "turn_started"), cur, rnd)

turn_complete(ch) == IF ch.temp_attack > 0 THEN [ch EXCEPT !.temp_attack = 0] ELSE ch

thaw_step(ch) ==
    IF ch.frozen_this_turn
    THEN [ch EXCEPT !.frozen_this_turn = FALSE]
    ELSE [ch EXCEPT !.frozen = FALSE]

\* _end_turn for the hero of the player whose turn ends
end_turn_hero(ch) == [thaw_step(turn_complete(ch)) EXCEPT !.active = TRUE]

\* _end_turn for a minion of the player whose turn ends
end_turn_minion(ch) ==
    thaw_step([turn_complete(ch) EXCEPT !.active = TRUE, !.used_wind_fury = FALSE])

\* mutant: the other player's characters keep frozen_this_turn
end_turn_other_keeps_flag(ch) == ch

\* _end_turn for the hero and the minions of the other player
end_turn_other(ch) == [ch EXCEPT !.frozen_this_turn = FALSE]

end_turn(g) ==
    LET cur == g.current_player
        oth == g.other_player
    IN [Fire(g, PlayerBus(cur), "turn_ended") EXCEPT !.characters =
          AsSeq([c \in 1..Len(g.characters) |->
             IF c = HeroOf(cur) THEN end_turn_hero(g.characters[c])
             ELSE IF c \in Range(g.players[cur].minions) THEN end_turn_minion(g.characters[c])
             ELSE IF c = HeroOf(oth) \/ c \in Range(g.players[oth].minions)
                  THEN end_turn_other(g.characters[c])
             ELSE g.characters[c]])]

InsertAt(seq, k, x) ==
    AsSeq([j \in 1..(Len(seq) + 1) |-> IF j < k THEN seq[j] ELSE IF j = k THEN x ELSE seq[j - 1]])

\* a battlecry: a card effect that add_to_board calls with the new minion
RunBattlecry(g, self) ==
    LET owner == g.characters[self].player
        friends == SelectSeq(g.players[owner].minions, LAMBDA m : m # self)
    IN IF g.characters[self].battlecry = "kill_friend" /\ Len(friends) > 0
       THEN damage(g, friends[1], 99, self)
       ELSE g

\* minion.add_to_board(card, game, player, index) for a new Minion object;
\* index counts from 0 as in the source.  The list insertion and the spell
\* power come first, then the battlecry, then the shift of the indices of the
\* minions then on the board, then the minion's own index
add_to_board(g, minion, p, index) ==
    LET self == Len(g.characters) + 1
        g1 == [g EXCEPT !.players[p].minions = InsertAt(@, index + 1, self),
                        !.players[p].spell_power = @ + minion.spell_power,
                        !.characters = Append(@, [minion EXCEPT !.player = p])]
        g2 == RunBattlecry(g1, self)
        board == Range(g2.players[p].minions)
        g3 == [g2 EXCEPT !.characters =
                 AsSeq([c \in 1..Len(g2.characters) |->
                    IF c = self
                    THEN [g2.characters[c] EXCEPT !.index = index,
                                                  !.active = IF minion.charge THEN TRUE ELSE @]
                    ELSE IF c \in board /\ g2.characters[c].index >= index
                         THEN [g2.characters[c] EXCEPT !.index = @ + 1]
                         ELSE g2.characters[c]])]
    IN Fire(Fire(g3, GameBus, "minion_added"), self, "added_to_board")

(***************************************************************************)
(* Card, MinionCard, SecretCard and Game.play_card.  A hand holds deck     *)
(* references; Library gives the card behind a reference.  The effects of  *)
(* the cards' use methods are those of the card classes built on Card.     *)
(***************************************************************************)
Library(id) ==
    CASE id % 4 = 1 -> [name |-> "charger", kind |-> "minion", mana |-> 1, target_func |-> "none"]
      [] id % 4 = 2 -> [name |-> "bolt", kind |-> "spell", mana |-> 4, target_func |-> "characters"]
      [] id % 4 = 3 -> [name |-> "trap", kind |-> "secret", mana |-> 1, target_func |-> "none"]
      [] OTHER -> [name |-> "hush", kind |-> "spell", mana |-> 2, target_func |-> "enemy_minions"]

\* a mana filter of a player: cards of one kind cost amount less, at least min
ManaFilter(kind, amount, min) == [kind |-> kind, amount |-> amount, min |-> min]

targetable(card) == card.target_func # "none"

\* card.get_targets(game, filter_func) with the filter spell_targetable
get_targets(g, card) ==
    LET open(board) == SelectSeq(board, LAMBDA m : ~g.characters[m].stealth)
        mine == open(g.players[g.current_player].minions)
        theirs == open(g.players[g.other_player].minions)
    IN IF card.target_func = "enemy_minions"
       THEN theirs
       ELSE theirs \o mine \o <<HeroOf(g.other_player), HeroOf(g.current_player)>>

RECURSIVE filtered_cost(_, _, _, _)
filtered_cost(filters, card, calc_mana, k) ==
    IF k > Len(filters)
    THEN calc_mana
    ELSE IF filters[k].kind = card.kind
         THEN IF calc_mana - filters[k].amount < filters[k].min
              THEN filters[k].min
              ELSE filtered_cost(filters, card, calc_mana - filters[k].amount, k + 1)
         ELSE filtered_cost(filters, card, calc_mana, k + 1)

mana_cost(g, card, p) == filtered_cost(g.players[p].mana_filters, card, card.mana, 1)

Card_can_use(g, card, p) ==
    IF targetable(card) /\ Len(get_targets(g, card)) = 0
    THEN FALSE
    ELSE g.players[p].mana >= mana_cost(g, card, p)

can_use(g, card, p) ==
    IF card.kind = "secret"
    THEN Card_can_use(g, card, p) /\ card.name \notin Range(g.players[p].secrets)
    ELSE Card_can_use(g, card, p)

is_spell(card) == card.kind # "minion"

spell_damage(g, c, amount, spellCard) ==
    damage(Fire(g, c, "spell_damaged"), c, amount, NoSource)

\* card.use: the agent's choose_target answers targets[choice] and its
\* choose_index answers index
Card_use(g, card, p, choice, index) ==
    LET targets == get_targets(g, card) IN
    CASE card.kind = "minion" ->
            add_to_board(g, [Minion(1, 1) EXCEPT !.charge = TRUE], p, index)
      [] card.kind = "secret" -> [g EXCEPT !.players[p].secrets = Append(@, card.name)]
      [] card.name = "bolt" -> spell_damage(g, targets[choice], 3, card)
      [] OTHER -> silence(g, targets[choice])

RECURSIVE flush_all(_, _)
flush_all(g, k) ==
    IF k > Len(g.delayed_minions)
    THEN [g EXCEPT !.delayed_minions = <<>>]
    ELSE flush_all(activate_delayed(g, g.delayed_minions[k]), k + 1)

\* Game.play_card(card) for the card behind reference id
play_card(g, id, choice, index) ==
    LET p == g.current_player
        card == Library(id)
    IN IF g.game_ended \/ ~can_use(g, card, p)
       THEN [g EXCEPT !.exception = "GameException"]
       ELSE LET g1 == Fire(g, PlayerBus(p), "card_played") IN
            IF id \notin Range(g1.players[p].hand)
            THEN [g1 EXCEPT !.exception = "ValueError"]
            ELSE LET g2 == [g1 EXCEPT !.players[p].hand = RemoveFirst(@, id)] IN
                 IF ~can_use(g2, card, p)
                 THEN [g2 EXCEPT !.exception = "GameException"]
                 ELSE LET g3 == [g2 EXCEPT !.players[p].mana = @ - mana_cost(g2, card, p)]
                          g4 == IF is_spell(card) THEN Fire(g3, PlayerBus(p), "spell_cast") ELSE g3
                          g5 == Card_use(g4, card, p, choice, index)
                      IN flush_all(Fire(g5, PlayerBus(p), "card_used"), 1)

(***************************************************************************)
(* Calls on a Game: the agents' actions and the turn loop                  *)
(***************************************************************************)
\* a call on the Game with what it was given and what it did
CallOf(op) ==
    [op |-> op, n |-> 0, self |-> 0, amount |-> 0, targets |-> <<>>, target |-> 0,
     my_power |-> 0, target_power |-> 0, exchanged |-> FALSE,
     shielded |-> FALSE, after_absorb |-> FALSE,
     keep |-> <<>>, hands |-> <<>>, card |-> 0]
NoCall == CallOf("none")

Characters == 1..Len(game.characters)

Mine(c) == c = HeroOf(game.current_player) \/ c \in Range(game.players[game.current_player].minions)

BoardMinion(m) == OnBoard(game, m)

Began == [game EXCEPT !.exception = "none", !.log = <<>>]

\* a freeze counts for thaw only while its minion stays on the board
Prune(th, g) == AsSeq([c \in 1..Len(g.characters) |->
                   IF c <= Len(th) /\ OnBoard(g, c) THEN th[c] ELSE 0])

\* the current player's agent has one of its characters attack
Attack(self, choice) ==
    /\ phase = "turn"
    /\ call.n < MaxTurnCalls \/ ~can_attack(game, self)
    /\ Mine(self)
    /\ choice \in 1..(IF can_attack(game, self) THEN Len(attack_targets(game)) ELSE 1)
    /\ \E r \in {attack(Began, self, choice)} :
        /\ game' = r.game
        /\ call' = [CallOf("attack") EXCEPT
                       !.n = call.n + (IF r.game.exception = "none" THEN 1 ELSE 0),
                       !.self = self, !.targets = r.targets,
                       !.target = r.target, !.my_power = r.my_power,
                       !.target_power = r.target_power, !.exchanged = r.exchanged]
        /\ thaw' = Prune(thaw, r.game)
        /\ obs' = [obs EXCEPT !.attacks[self] = @ + (IF r.exchanged THEN 1 ELSE 0)]
    /\ UNCHANGED <<phase, turn, busVars, deckVars>>

\* minion.damage(amount, None) called on a board minion, as an effect's code does
Damage(m, amount) ==
    /\ phase = "turn"
    /\ call.n < MaxTurnCalls
    /\ BoardMinion(m)
    /\ game' = damage(Began, m, amount, NoSource)
    /\ call' = [CallOf("damage") EXCEPT !.n = call.n + 1, !.self = m, !.amount = amount,
                   !.shielded = game.characters[m].divine_shield,
                   !.after_absorb = (call.op = "damage" /\ call.self = m /\ call.shielded)]
    /\ thaw' = Prune(thaw, game')
    /\ UNCHANGED <<phase, turn, obs, busVars, deckVars>>

\* freeze() called on a board minion or a hero, as an effect's code does
Freeze(c) ==
    /\ phase = "turn"
    /\ call.n < MaxTurnCalls
    /\ c \in PlayerIds \/ BoardMinion(c)
    /\ game' = freeze(Began, c)
    /\ call' = [CallOf("freeze") EXCEPT !.n = call.n + 1, !.self = c]
    /\ thaw' = [thaw EXCEPT ![c] = IF BoardMinion(c) /\ game.characters[c].player # game.current_player
                                  THEN 1 ELSE 0]
    /\ UNCHANGED <<phase, turn, obs, busVars, deckVars>>

\* silence() called on a board minion, as an effect's code does
Silence(m) ==
    /\ phase = "turn"
    /\ call.n < MaxTurnCalls
    /\ BoardMinion(m)
    /\ game' = silence(Began, m)
    /\ call' = [CallOf("silence") EXCEPT !.n = call.n + 1, !.self = m]
    /\ thaw' = [thaw EXCEPT ![m] = 0]
    /\ UNCHANGED <<phase, turn, obs, busVars, deckVars>>

\* add_to_board called for a new minion of the current player, as MinionCard.use does
Summon(minion, index) ==
    /\ phase = "turn"
    /\ call.n < MaxTurnCalls
    /\ Len(game.characters) < 2 + MaxSummons
    /\ index \in 0..Len(game.players[game.current_player].minions)
    /\ game' = add_to_board(Began, minion, game.current_player, index)
    /\ call' = [CallOf("add_to_board") EXCEPT !.n = call.n + 1, !.self = Len(game.characters) + 1]
    /\ thaw' = Append(thaw, 0)
    /\ obs' = [obs EXCEPT !.attacks = Append(@, 0)]
    /\ UNCHANGED <<phase, turn, busVars, deckVars>>

\* hero.damage(amount, None) called on the hero of player p, as an effect's code does
DamageHero(p, amount) ==
    /\ phase = "turn"
    /\ call.n < MaxTurnCalls
    /\ game' = damage(Began, HeroOf(p), amount, NoSource)
    /\ call' = [CallOf("damage") EXCEPT !.n = call.n + 1, !.self = HeroOf(p), !.amount = amount]
    /\ thaw' = Prune(thaw, game')
    /\ UNCHANGED <<phase, turn, obs, busVars, deckVars>>

\* the lowest reference that player p has not drawn
NextInDeck(g, p) ==
    LET left == {k \in DOMAIN g.players[p].deck.used : ~g.players[p].deck.used[k]}
    IN {k \in left : \A j \in left : k <= j}

\* the current player's agent calls game.play_card on the card behind
\* reference id, a card of its hand or the next one of its deck
PlayCard(id, choice, index) ==
    /\ phase = "turn"
    /\ id \in Range(game.players[game.current_player].hand) \cup NextInDeck(game, game.current_player)
    /\ LET card == Library(id)
           r == play_card(Began, id, choice, index)
       IN /\ choice \in 1..(IF targetable(card) /\ Len(get_targets(game, card)) > 0
                             THEN Len(get_targets(game, card)) ELSE 1)
          /\ index \in 0..(IF card.kind = "minion"
                             THEN Len(game.players[game.current_player].minions) ELSE 0)
          /\ call.n < MaxTurnCalls
          /\ game' = r
          /\ call' = [CallOf("play_card") EXCEPT
                         !.n = call.n + 1,
                         !.card = id, !.self = Len(r.characters)]
          /\ thaw' = Prune(thaw, r)
          /\ obs' = [obs EXCEPT !.attacks = AsSeq([c \in 1..Len(r.characters) |->
                                               IF c <= Len(@) THEN @[c] ELSE 0])]
    /\ UNCHANGED <<phase, turn, busVars, deckVars>>

\* play_single_turn, first part: _start_turn, then the agent's do_turn begins
StartTurn(rnd) ==
    /\ phase = "between"
    /\ ~game.game_ended
    /\ turn < MaxTurns
    /\ game' = start_turn(Began, rnd)
    /\ call' = CallOf("_start_turn")
    /\ phase' = "turn"
    /\ turn' = turn + 1
    /\ thaw' = thaw
    /\ UNCHANGED <<obs, busVars, deckVars>>

\* play_single_turn, last part: do_turn returned, _end_turn
EndTurn ==
    /\ phase = "turn"
    /\ game' = end_turn(Began)
    /\ call' = CallOf("_end_turn")
    /\ phase' = "between"
    /\ thaw' = AsSeq([c \in 1..Len(thaw) |->
                  IF thaw[c] = 1 /\ game.characters[c].player # game.current_player THEN 2
                  ELSE IF thaw[c] = 2 /\ game.characters[c].player = game.current_player THEN 3
                  ELSE thaw[c]])
    /\ obs' = [obs EXCEPT !.attacks = AsSeq([c \in 1..Len(@) |-> 0])]
    /\ UNCHANGED <<turn, busVars, deckVars>>

\* play_single_turn with an agent whose do_turn does nothing
IdleTurn(rnd) ==
    /\ phase = "between"
    /\ ~game.game_ended
    /\ turn < MaxIdleTurns
    /\ game' = end_turn(start_turn(Began, rnd))
    /\ call' = CallOf("play_single_turn")
    /\ turn' = turn + 1
    /\ UNCHANGED <<phase, thaw, obs, busVars, deckVars>>

\* Game.pre_game, called once, before the first turn
PreGame(keep, rnd) ==
    /\ call.op = "none"
    /\ game' = pre_game(Began, keep, rnd)
    /\ call' = [CallOf("pre_game") EXCEPT !.keep = keep,
                   !.hands = <<game.players[1].hand, game.players[2].hand>>]
    /\ UNCHANGED <<phase, turn, thaw, obs, busVars, deckVars>>

\* Game.start, called once on a new Game, up to the head of the turn loop
Start(keep, rnd) ==
    /\ phase = "created"
    /\ game' = start(Began, keep, rnd)
    /\ call' = [CallOf("start") EXCEPT !.keep = keep,
                   !.hands = <<game.players[1].hand, game.players[2].hand>>]
    /\ phase' = "between"
    /\ UNCHANGED <<turn, thaw, obs, busVars, deckVars>>

(***************************************************************************)
(* Minions of the cards the model plays                                    *)
(***************************************************************************)
Plain == Minion(3, 2)
Taunt == [Minion(2, 3) EXCEPT !.taunt = TRUE]
Shielded == [Minion(1, 1) EXCEPT !.divine_shield = TRUE]
StealthTaunt == [Minion(1, 2) EXCEPT !.stealth = TRUE, !.taunt = TRUE]
Immune == [Minion(2, 2) EXCEPT !.immune = TRUE]
\* gains 1 temporary attack when it is attacked
Angry == [Minion(2, 3) EXCEPT !.bound["attacked"] = "gain_temp_attack"]
\* gains 1 attack when it takes physical damage
Enrage == [Minion(2, 3) EXCEPT !.bound["physically_damaged"] = "gain_attack"]
\* raises the attack of whoever deals physical damage to it
Inciter == [Minion(1, 3) EXCEPT !.bound["physically_damaged"] = "buff_other"]
Charger == [Minion(1, 1) EXCEPT !.charge = TRUE]
WindFury == [Minion(1, 3) EXCEPT !.wind_fury = TRUE, !.charge = TRUE]

\* deals 2 damage to whoever attacks it
Trap == [Minion(1, 3) EXCEPT !.bound["attacked"] = "damage_other"]
Warded == [Minion(1, 2) EXCEPT !.immune = TRUE, !.divine_shield = TRUE]
Rattler == [Minion(3, 2) EXCEPT !.deathrattle = TRUE, !.taunt = TRUE]
Sorcerer == [Minion(2, 2) EXCEPT !.spell_power = 1]
Lurker == [Minion(3, 2) EXCEPT !.stealth = TRUE]
\* battlecry: destroys the first other minion of its player
Slayer == [Minion(1, 1) EXCEPT !.battlecry = "kill_friend"]
\* takes 1 damage when it learns that it did damage
Recoiler == [Minion(3, 2) EXCEPT !.bound["did_damage"] = "recoil"]

AttackerMinions == {Plain, Enrage, Inciter}
DefenderMinions == {Plain, Taunt, Shielded, StealthTaunt, Immune, Angry, Enrage}
TurnMinions == {Taunt, WindFury}

Amounts == {1, 99}

BoardsOf(minions, n) == UNION {[1..k -> minions] : k \in 0..n}

RECURSIVE place(_, _, _, _)
place(g, p, board, k) ==
    IF k > Len(board) THEN g ELSE place(add_to_board(g, board[k], p, k - 1), p, board, k + 1)

AllLo(n) == AsSeq([k \in 1..n |-> "lo"])

\* a position in the turn of player 1: the boards b1 and b2 were played in
\* earlier turns, every character was made active by its owner's last _end_turn
CombatPosition(b1, b2, hero_attack) ==
    LET g == place(place(Game(AllLo(FirstDeal), AllLo(SecondDeal)), 1, b1, 1), 2, b2, 1)
    IN [g EXCEPT !.log = <<>>, !.characters =
          AsSeq([c \in 1..Len(g.characters) |->
             [g.characters[c] EXCEPT !.active = TRUE,
                                     !.temp_attack = IF c = 1 THEN hero_attack ELSE @]])]

\* the states of a hero in the positions of the play specification
HeroIn(ch, condition) ==
    CASE condition = "weak" -> [ch EXCEPT !.health = 1]
      [] condition = "guarded" -> [ch EXCEPT !.armour = 2, !.immune = TRUE]
      [] OTHER -> ch

PlayMinions == {Rattler, Trap, Warded}

\* a position in the turn of player 1, who has drawn for the turn and has
\* mana crystals, all of them full
PlayPosition(b1, b2, hero_attack, h1, h2, mana) ==
    LET g == Player_draw(CombatPosition(b1, b2, hero_attack), 1, "lo")
    IN [g EXCEPT !.log = <<>>,
                 !.characters[1] = HeroIn(@, h1),
                 !.characters[2] = HeroIn(@, h2),
                 !.players[1].mana = mana,
                 !.players[1].max_mana = mana]

\* a position in the turn of player 1 whose hero, when furious, has wind fury
\* and 1 attack
BoardPosition(b1, b2, furious) ==
    LET g == CombatPosition(b1, b2, 0)
    IN IF furious
       THEN [g EXCEPT !.characters[1].wind_fury = TRUE, !.characters[1].attack_power = 1]
       ELSE g

(***************************************************************************)
(* Bus specifications                                                      *)
(***************************************************************************)
Caller == AtTopLevel \/ InCallback

\* any program: callbacks may bind, unbind and re-trigger
NextBus ==
    \/ \E f \in Functions : Caller /\ bind(f)
    \/ \E f \in Functions : Caller /\ bind_once(f)
    \/ \E f \in Functions : Caller /\ unbind(f)
    \/ AtTopLevel /\ trigger
    \/ callback_trigger
    \/ trigger_skip
    \/ trigger_invoke
    \/ handler_return(FALSE)
    \/ trigger_return

\* callbacks that each re-trigger their own event once and do nothing else;
\* the registry is only changed between dispatches
NextReentry ==
    \/ \E f \in Functions : AtTopLevel /\ bind(f)
    \/ \E f \in Functions : AtTopLevel /\ bind_once(f)
    \/ \E f \in Functions : AtTopLevel /\ unbind(f)
    \/ AtTopLevel /\ trigger
    \/ callback_trigger
    \/ trigger_skip
    \/ trigger_invoke
    \/ handler_return(TRUE)
    \/ trigger_return

NextDeck ==
    \/ \E index \in 0..(DeckSize - 1) : DeckDraw(index)
    \/ DeckDrawEmpty
    \/ \E card \in Cards \cup {ForeignCard} : DeckPutBack(card)

\* an untouched Deck of distinct cards and a Game that was not created
IdleDeck == Deck([k \in Slots |-> k])
NoGame == [game_ended |-> FALSE]

InitBus ==
    /\ events = <<>>
    /\ handlers = <<>>
    /\ stack = <<>>
    /\ invoked = <<>>
    /\ raised = FALSE
    /\ deck = IdleDeck
    /\ history = <<>>
    /\ game = NoGame
    /\ call = NoCall
    /\ phase = "between"
    /\ turn = 0
    /\ thaw = <<>>
    /\ obs = [attacks |-> AsSeq([c \in 1..Len(thaw) |-> 0])]

InitDeck ==
    /\ events = <<>>
    /\ handlers = <<>>
    /\ stack = <<>>
    /\ invoked = <<>>
    /\ raised = FALSE
    /\ deck \in {Deck(cards) : cards \in [Slots -> Cards]}
    /\ history = <<>>
    /\ game = NoGame
    /\ call = NoCall
    /\ phase = "between"
    /\ turn = 0
    /\ thaw = <<>>
    /\ obs = [attacks |-> AsSeq([c \in 1..Len(thaw) |-> 0])]

NextCombat ==
    \/ \E self \in Characters, choice \in 1..(MaxDefenders + 1) : Attack(self, choice)
    \/ \E m \in Characters, amount \in Amounts : Damage(m, amount)

NextTurns ==
    \/ \E rnd \in {"lo"} : StartTurn(rnd)
    \/ \E minion \in TurnMinions, index \in 0..MaxSummons : Summon(minion, index)
    \/ \E self \in Characters, choice \in 1..(MaxSummons + 1) : Attack(self, choice)
    \/ \E c \in Characters : Freeze(c)
    \/ \E m \in Characters : Silence(m)
    \/ EndTurn

NextMulligan ==
    \E k1 \in [1..FirstDeal -> BOOLEAN], k2 \in [1..SecondDeal -> BOOLEAN],
       r1 \in RandomModes, r2 \in RandomModes :
        PreGame(<<k1, k2>>, <<AsSeq([k \in 1..FirstDeal |-> r1]), AsSeq([k \in 1..SecondDeal |-> r2])>>)

InitCombat ==
    /\ events = <<>>
    /\ handlers = <<>>
    /\ stack = <<>>
    /\ invoked = <<>>
    /\ raised = FALSE
    /\ deck = IdleDeck
    /\ history = <<>>
    /\ game \in {CombatPosition(b1, b2, a) : b1 \in BoardsOf(AttackerMinions, MaxAttackers),
                                            b2 \in BoardsOf(DefenderMinions, MaxDefenders),
                                            a \in {0, 1}}
    /\ call = NoCall
    /\ phase = "turn"
    /\ turn = 1
    /\ thaw = AsSeq([c \in 1..Len(game.characters) |-> 0])
    /\ obs = [attacks |-> AsSeq([c \in 1..Len(thaw) |-> 0])]

\* the loop head of start(): the construction's draws answered lo, pre_game
\* kept every card, and start made players[1] the current player
InitTurns ==
    /\ events = <<>>
    /\ handlers = <<>>
    /\ stack = <<>>
    /\ invoked = <<>>
    /\ raised = FALSE
    /\ deck = IdleDeck
    /\ history = <<>>
    /\ game = [Game(AllLo(FirstDeal), AllLo(SecondDeal)) EXCEPT !.current_player = 2]
    /\ call = CallOf("pre_game")
    /\ phase = "between"
    /\ turn = 0
    /\ thaw = <<0, 0>>
    /\ obs = [attacks |-> AsSeq([c \in 1..Len(thaw) |-> 0])]

InitMulligan ==
    /\ events = <<>>
    /\ handlers = <<>>
    /\ stack = <<>>
    /\ invoked = <<>>
    /\ raised = FALSE
    /\ deck = IdleDeck
    /\ history = <<>>
    /\ game \in {Game(d1, d2) : d1 \in [1..FirstDeal -> RandomModes],
                                d2 \in [1..SecondDeal -> RandomModes]}
    /\ call = NoCall
    /\ phase = "between"
    /\ turn = 0
    /\ thaw = <<0, 0>>
    /\ obs = [attacks |-> AsSeq([c \in 1..Len(thaw) |-> 0])]

NextPlay ==
    \/ \E id \in 1..GameDeckSize, choice \in 1..(MaxDefenders + MaxAttackers + 2),
          index \in 0..MaxAttackers : PlayCard(id, choice, index)
    \/ \E self \in Characters, choice \in 1..(MaxDefenders + 1) : Attack(self, choice)
    \/ \E m \in Characters, amount \in Amounts : Damage(m, amount)
    \/ \E p \in PlayerIds, amount \in Amounts : DamageHero(p, amount)

InitPlay ==
    /\ events = <<>>
    /\ handlers = <<>>
    /\ stack = <<>>
    /\ invoked = <<>>
    /\ raised = FALSE
    /\ deck = IdleDeck
    /\ history = <<>>
    /\ game \in {PlayPosition(<<Recoiler>>, b2, 1, h1, h2, mana) :
                    b2 \in BoardsOf(PlayMinions, 1),
                    h1 \in {"weak", "guarded"}, h2 \in {"sound", "weak"},
                    mana \in {SecondDeal}}
    /\ call = NoCall
    /\ phase = "turn"
    /\ turn = 1
    /\ thaw = AsSeq([c \in 1..Len(game.characters) |-> 0])
    /\ obs = [attacks |-> AsSeq([c \in 1..Len(thaw) |-> 0])]

SpecPlay == InitPlay /\ [][NextPlay]_vars

\* minions cost 2 less, but not less than 0, and spells cost 1 more
CostFilters == <<ManaFilter("minion", 2, 0), ManaFilter("spell", -1, 0)>>

\* the loop head of start() early (no mana crystal yet) or late in a game
\* (crystals one short of the cap), with or without mana filters in force
ManaPosition(crystals, filters) ==
    [Game(AllLo(FirstDeal), AllLo(SecondDeal)) EXCEPT
        !.current_player = 2,
        !.players = [p \in PlayerIds |->
                       [@[p] EXCEPT !.max_mana = crystals, !.mana_filters = filters]]]

NextMana ==
    \/ \E rnd \in RandomModes : StartTurn(rnd)
    \/ \E id \in 1..GameDeckSize, choice \in 1..(MaxSummons + 2),
          index \in 0..MaxSummons : PlayCard(id, choice, index)
    \/ EndTurn

InitMana ==
    /\ events = <<>>
    /\ handlers = <<>>
    /\ stack = <<>>
    /\ invoked = <<>>
    /\ raised = FALSE
    /\ deck = IdleDeck
    /\ history = <<>>
    /\ game \in {ManaPosition(crystals, filters) :
                    crystals \in {0, MaxMana - 1}, filters \in {<<>>, CostFilters}}
    /\ call = CallOf("pre_game")
    /\ phase = "between"
    /\ turn = 0
    /\ thaw = <<0, 0>>
    /\ obs = [attacks |-> AsSeq([c \in 1..Len(thaw) |-> 0])]

SpecMana == InitMana /\ [][NextMana]_vars

\* each agent keeps its whole hand or none of it
NextStart ==
    \/ \E k1 \in BOOLEAN, k2 \in BOOLEAN, r1 \in RandomModes, r2 \in RandomModes :
          Start(<<AsSeq([k \in 1..FirstDeal |-> k1]), AsSeq([k \in 1..SecondDeal |-> k2])>>,
                <<AsSeq([k \in 1..FirstDeal |-> r1]), AsSeq([k \in 1..SecondDeal |-> r2])>>)
    \/ \E rnd \in RandomModes : StartTurn(rnd)
    \/ EndTurn

\* a Game as its constructor leaves it
InitStart ==
    /\ events = <<>>
    /\ handlers = <<>>
    /\ stack = <<>>
    /\ invoked = <<>>
    /\ raised = FALSE
    /\ deck = IdleDeck
    /\ history = <<>>
    /\ game \in {Game(AsSeq([k \in 1..FirstDeal |-> d1]), AsSeq([k \in 1..SecondDeal |-> d2])) :
                    d1 \in RandomModes, d2 \in RandomModes}
    /\ call = NoCall
    /\ phase = "created"
    /\ turn = 0
    /\ thaw = <<0, 0>>
    /\ obs = [attacks |-> AsSeq([c \in 1..Len(thaw) |-> 0])]

SpecStart == InitStart /\ [][NextStart]_vars

NextBoard ==
    \/ \E minion \in {Sorcerer, Slayer}, index \in 0..MaxSummons : Summon(minion, index)
    \/ \E m \in Characters : Silence(m)
    \/ \E m \in Characters, amount \in Amounts : Damage(m, amount)
    \/ \E self \in Characters, choice \in 1..(MaxSummons + 1) : Attack(self, choice)
    \/ EndTurn

InitBoard ==
    /\ events = <<>>
    /\ handlers = <<>>
    /\ stack = <<>>
    /\ invoked = <<>>
    /\ raised = FALSE
    /\ deck = IdleDeck
    /\ history = <<>>
    /\ game \in {BoardPosition(<<m1>>, b2, furious) :
                    m1 \in {Sorcerer, Lurker},
                    b2 \in BoardsOf({Trap, Plain}, 1),
                    furious \in BOOLEAN}
    /\ call = NoCall
    /\ phase = "turn"
    /\ turn = 1
    /\ thaw = AsSeq([c \in 1..Len(game.characters) |-> 0])
    /\ obs = [attacks |-> AsSeq([c \in 1..Len(thaw) |-> 0])]

SpecBoard == InitBoard /\ [][NextBoard]_vars

NextFatigue == \E rnd \in RandomModes : IdleTurn(rnd)

\* the loop head of start(), pre_game having kept every card; each player's
\* deal answered the random source one way
InitFatigue ==
    /\ events = <<>>
    /\ handlers = <<>>
    /\ stack = <<>>
    /\ invoked = <<>>
    /\ raised = FALSE
    /\ deck = IdleDeck
    /\ history = <<>>
    /\ game \in {[Game(AsSeq([k \in 1..FirstDeal |-> d1]), AsSeq([k \in 1..SecondDeal |-> d2]))
                      EXCEPT !.current_player = 2] : d1 \in RandomModes, d2 \in RandomModes}
    /\ call = CallOf("pre_game")
    /\ phase = "between"
    /\ turn = 0
    /\ thaw = <<0, 0>>
    /\ obs = [attacks |-> AsSeq([c \in 1..Len(thaw) |-> 0])]

\* the condition of the while loop of start(), and the step of the turn
\* counter that every play_single_turn makes
LoopRuns == phase = "between" /\ ~game.game_ended /\ turn < MaxIdleTurns
TurnTaken == LoopRuns /\ turn' = turn + 1

\* the loop of start() runs on while the game has not ended: a turn is taken
\* whenever the loop condition holds (the steps of NextFatigue are the only
\* ones that count a turn)
SpecFatigue == InitFatigue /\ [][NextFatigue]_vars /\ WF_turn(TurnTaken)

SpecCombat == InitCombat /\ [][NextCombat]_vars

SpecTurns == InitTurns /\ [][NextTurns]_vars

SpecMulligan == InitMulligan /\ [][NextMulligan]_vars

SpecBus == InitBus /\ [][NextBus]_vars

SpecReentry == InitBus /\ [][NextReentry]_vars

SpecDeck == InitDeck /\ [][NextDeck]_vars

(***************************************************************************)
(* Claims about the bus                                                    *)
(***************************************************************************)
HandlerIds == 1..Len(handlers)

Registered(h) == h \in Range(events)

Executing(h) == \E k \in 1..Len(stack) : stack[k].kind = "call" /\ stack[k].h = h

Persistent(h) == ~handlers[h].remove

\* C1: a handler registered with bind_once is invoked at most once, also when
\* the event is triggered again from inside a running handler, and once its
\* invocation has returned it is no longer in the registry of its event.
C1_OneShotFiresAtMostOnce ==
    \A h \in HandlerIds :
        handlers[h].remove =>
            /\ invoked[h] <= 1
            /\ (invoked[h] >= 1 /\ ~handlers[h].active) => ~Registered(h)

\* C2: (a) a trigger issued while no handler is executing invokes every handler
\* registered with bind exactly once, in registration order; (b) a handler
\* removed by unbind is not invoked again, also when another handler unbound it
\* during the dispatch in progress.  A persistent handler leaves the registry
\* only through unbind, so (b) says that every invoked persistent handler is
\* registered at the moment it is invoked.
C2_OuterTriggerReturns == Len(stack) = 1 /\ stack' = <<>>

C2_PersistentOnceEachInOrder ==
    C2_OuterTriggerReturns =>
        SelectSeq(stack[1].inv, Persistent) = SelectSeq(stack[1].copy, Persistent)

C2_NotInvokedAfterUnbind ==
    \A h \in HandlerIds :
        (Persistent(h) /\ invoked'[h] > invoked[h]) => Registered(h)

C2_PersistentHandlers ==
    [][C2_PersistentOnceEachInOrder /\ C2_NotInvokedAfterUnbind]_vars

\* C3: with handlers that each re-trigger their own event and bind nothing,
\* a nested trigger skips exactly the executing handlers, no trigger call fails
\* to return, and the nesting depth is at most the number of handlers that
\* were registered when the outermost trigger started.
C3_Depth == Cardinality({k \in 1..Len(stack) : stack[k].kind = "call"})

C3_SkipsOnlyExecuting ==
    (InLoop /\ handlers[Top.copy[Top.i]].active) => Executing(Top.copy[Top.i])

C3_ReentryTerminates ==
    /\ ~raised
    /\ stack # <<>> => C3_Depth <= Len(stack[1].copy)
    /\ C3_SkipsOnlyExecuting

(***************************************************************************)
(* Claims about the Deck                                                   *)
(***************************************************************************)
LastCall == history[Len(history)]

UsedCount(d) == Cardinality({k \in DOMAIN d.used : d.used[k]})

\* C4: after any sequence of draw and put_back calls, failing ones included,
\* the remaining count plus the number of used slots is the deck size, and a
\* successful draw returns the card of a slot that was unused before the draw.
C4_DeckInvariant ==
    /\ deck.left + UsedCount(deck) = DeckSize
    /\ (history # <<>> /\ LastCall.op = "draw" /\ LastCall.ok) =>
         /\ LastCall.slot \in Slots
         /\ ~LastCall.used[LastCall.slot]
         /\ LastCall.card = deck.cards[LastCall.slot]

\* a successful draw made after a put_back, with another slot still used
C4_Witness ==
    /\ Len(history) = 2
    /\ history[1].op = "put_back" /\ history[1].ok
    /\ history[2].op = "draw" /\ history[2].ok
    /\ UsedCount(deck) >= 2

DistinctCards == \A j, k \in Slots : deck.cards[j] = deck.cards[k] => j = k

\* a successful draw immediately followed by put_back of the card it returned
RoundTrip ==
    /\ Len(history) = 2
    /\ history[1].op = "draw" /\ history[1].ok
    /\ history[2].op = "put_back" /\ history[2].arg = history[1].card

Restored == history[2].ok /\ deck.used = history[1].used /\ deck.left = history[1].left

\* slots that hold the card and were marked used before the last call
UsedHolders(card) == {k \in Slots : deck.cards[k] = card /\ LastCall.used[k]}

Holders(card) == {k \in Slots : deck.cards[k] = card}

Min(S) == CHOOSE x \in S : \A y \in S : x <= y

\* C5 as stated: on every deck, duplicates included, draw followed by put_back
\* of the drawn card succeeds and restores mask and count, and put_back
\* un-marks the first slot that holds the card and is marked used.
C5_RoundTripAnyDeck ==
    /\ RoundTrip => Restored
    /\ (history # <<>> /\ LastCall.op = "put_back" /\ UsedHolders(LastCall.arg) # {}) =>
         /\ LastCall.ok
         /\ deck.used = [LastCall.used EXCEPT ![Min(UsedHolders(LastCall.arg))] = FALSE]

\* C5 amended: the round trip restores the deck when the slots hold pairwise
\* distinct cards; put_back looks only at the first slot that holds the card,
\* un-marks it when it is marked used and fails, changing nothing, otherwise.
C5_RoundTripDistinctDeck ==
    /\ (DistinctCards /\ RoundTrip) => Restored
    /\ (history # <<>> /\ LastCall.op = "put_back") =>
         IF Holders(LastCall.arg) # {} /\ LastCall.used[Min(Holders(LastCall.arg))]
         THEN /\ LastCall.ok
              /\ deck.used = [LastCall.used EXCEPT ![Min(Holders(LastCall.arg))] = FALSE]
              /\ deck.left = LastCall.left + 1
         ELSE /\ ~LastCall.ok
              /\ deck.used = LastCall.used
              /\ deck.left = LastCall.left

\* a round trip on a deck of distinct cards that already had a used slot
C5_Witness ==
    /\ DistinctCards
    /\ RoundTrip
    /\ history[2].ok
    /\ \E k \in Slots : history[1].used[k]

(***************************************************************************)
(* Claims about damage and attack                                          *)
(***************************************************************************)
\* C6: a damage call of any positive amount on a minion that has divine
\* shield leaves its health unchanged, clears the shield and schedules no
\* "damaged" or "died" event; the shield is consumed by that one call, so the
\* next damage call on that minion, if it is not immune, subtracts its full
\* amount from health and kills the minion when health reaches 0 or less.
C6_Absorbed(m) ==
    /\ game'.characters[m].health = game.characters[m].health
    /\ ~game'.characters[m].divine_shield
    /\ game'.characters[m].delayed = game.characters[m].delayed
    /\ game'.delayed_minions = game.delayed_minions
    /\ ~game'.characters[m].dead
    /\ OnBoard(game', m)

C6_FullDamage(m, amount) ==
    /\ game'.characters[m].health = game.characters[m].health - amount
    /\ game'.characters[m].delayed # game.characters[m].delayed
    /\ IF game'.characters[m].health <= 0
       THEN /\ game'.characters[m].dead
            /\ ~OnBoard(game', m)
            /\ game'.characters[m].delayed[Len(game'.characters[m].delayed)] = "died"
       ELSE /\ ~game'.characters[m].dead
            /\ OnBoard(game', m)

C6_DivineShield ==
    [][call'.op = "damage" =>
         /\ call'.amount > 0
         /\ game.characters[call'.self].divine_shield => C6_Absorbed(call'.self)
         /\ (~game.characters[call'.self].divine_shield /\ ~game.characters[call'.self].immune)
               => C6_FullDamage(call'.self, call'.amount)
         /\ call'.after_absorb => ~game.characters[call'.self].divine_shield]_vars

\* a second damage call on a minion whose shield the call before consumed
\* has killed it
C6_Witness ==
    /\ call.op = "damage"
    /\ call.after_absorb
    /\ game.characters[call.self].dead
    /\ ~game.characters[call.self].immune

Enemies == Range(game.players[game.other_player].minions)
Attackable == {m \in Enemies : ~game.characters[m].stealth}
AttackableTaunts == {m \in Attackable : game.characters[m].taunt}

\* C7: in attack, if at least one opposing minion that can be attacked (not
\* stealthed) has taunt, the candidate list given to choose_target is exactly
\* the attackable taunted opposing minions, without the opposing hero;
\* otherwise it is exactly all attackable opposing minions plus the opposing
\* hero.  A stealthed minion is never in the list and a stealthed taunt
\* minion does not restrict it.
C7_Targets ==
    [][(call'.op = "attack" /\ can_attack(game, call'.self)) =>
         LET T == Range(call'.targets) IN
         /\ Cardinality(T) = Len(call'.targets)
         /\ call'.target \in T
         /\ IF AttackableTaunts # {}
            THEN T = AttackableTaunts
            ELSE T = Attackable \cup {HeroOf(game.other_player)}
         /\ \A m \in Enemies : game.characters[m].stealth => m \notin T]_vars

\* an attack whose only candidate was a taunt minion although the opponent
\* had a second minion on the board
C7_Witness ==
    /\ call.op = "attack"
    /\ call.exchanged
    /\ Len(call.targets) = 1
    /\ game.characters[call.targets[1]].kind = "minion"
    /\ game.characters[call.targets[1]].taunt
    /\ Len(game.players[game.other_player].minions) = 2

Unprotected(m) == ~game.characters[m].immune /\ ~game.characters[m].divine_shield

\* C8: when a minion attacks a minion and neither side is immune or
\* divine-shielded, the target loses health equal to the attacker's power and
\* the attacker loses health equal to the target's power, each power being
\* attack_power plus temp_attack as it stood after the "attack_minion" and
\* "attacked" reactions and before either damage was applied.
C8_SimultaneousExchange ==
    [][(/\ call'.op = "attack"
        /\ call'.exchanged
        /\ game.characters[call'.self].kind = "minion"
        /\ game.characters[call'.target].kind = "minion"
        /\ Unprotected(call'.self)
        /\ Unprotected(call'.target)) =>
         /\ game'.characters[call'.target].health =
               game.characters[call'.target].health - call'.my_power
         /\ game'.characters[call'.self].health =
               game.characters[call'.self].health - call'.target_power]_vars

(***************************************************************************)
(* Claims about the turn loop                                              *)
(***************************************************************************)
\* thaw[m] follows a board minion m from a freeze() called during its
\* opponent's turn: 1 until that turn's _end_turn, 2 from there until the
\* _end_turn of its owner's following turn, 3 afterwards; 0 when it is not
\* followed (never frozen so, frozen again in its owner's turn, silenced, dead)
Followed == {m \in 1..Len(thaw) : thaw[m] > 0}

\* C9: a board minion on which freeze() is called during its opponent's turn
\* is still frozen after that turn's _end_turn and cannot attack during its
\* owner's following turn (attack raises and changes nothing); it is unfrozen
\* by the _end_turn that closes that owner's turn and not earlier, provided it
\* is not frozen again or silenced in between.
C9_ThawTiming ==
    /\ [](\A m \in Followed :
            /\ thaw[m] \in {1, 2} => game.characters[m].frozen /\ ~can_attack(game, m)
            /\ thaw[m] = 1 => phase = "turn" /\ game.current_player # game.characters[m].player
            /\ thaw[m] = 3 => ~game.characters[m].frozen)
    /\ [][(call'.op = "attack" /\ call'.self \in Followed /\ thaw[call'.self] = 2) =>
            /\ game'.exception = "GameException"
            /\ game'.characters = game.characters
            /\ game'.players = game.players]_vars

\* a minion frozen in its opponent's turn has come through its owner's turn,
\* where its attack was refused, and the _end_turn of that turn has thawed it
C9_Witness ==
    /\ \E m \in Followed : thaw[m] = 3 /\ game.characters[m].attack_power > 0
                           /\ game.characters[m].active
    /\ call.op = "_end_turn"

Swings(m) == obs.attacks[m]
OwnBoard == Range(game.players[game.current_player].minions)

\* C11: within one turn of its owner a minion that has wind fury, is
\* active, not frozen, has positive attack and survives its attacks completes
\* a first and a second attack legally, and its third attack attempt in that
\* turn raises the illegal-action error; the first attack sets
\* used_wind_fury (and leaves the minion active), the second deactivates it.
\* Swings(m) counts the attacks m completed since the last _end_turn.
C11_WindFury ==
    /\ [](phase = "turn" =>
            \A m \in OwnBoard :
                /\ Swings(m) <= 2
                /\ (game.characters[m].wind_fury /\ Swings(m) = 0)
                      => ~game.characters[m].used_wind_fury
                /\ (game.characters[m].wind_fury /\ Swings(m) = 1)
                      => game.characters[m].used_wind_fury /\ game.characters[m].active
                /\ Swings(m) = 2 => ~game.characters[m].active)
    /\ [][(call'.op = "attack" /\ call'.self \in OwnBoard /\ Swings(call'.self) = 2) =>
            /\ game'.exception = "GameException"
            /\ game'.characters = game.characters
            /\ game'.players = game.players]_vars

\* a wind-fury minion has attacked twice in this turn and its third attempt
\* was refused
C11_Witness ==
    /\ call.op = "attack"
    /\ game.exception = "GameException"
    /\ call.self \in OwnBoard
    /\ game.characters[call.self].wind_fury
    /\ Swings(call.self) = 2

Drawer == IF game.current_player = 1 THEN 2 ELSE 1

\* C12: in a game whose agents never play a card and never attack, the turn
\* loop of start() eventually ends with game_ended true: both decks run out,
\* each draw on an empty deck raises that player's fatigue by one and deals
\* that many points of damage to that player's hero instead of failing, and
\* a hero's health reaches 0 or less by fatigue alone.
C12_FatigueEndsGame ==
    /\ <>(game.game_ended)
    /\ [][call'.op = "play_single_turn" =>
            /\ game'.exception = "none"
            /\ game'.current_player = Drawer
            /\ IF game.players[Drawer].deck.left = 0
               THEN /\ game'.players[Drawer].fatigue = game.players[Drawer].fatigue + 1
                    /\ game'.characters[HeroOf(Drawer)].health =
                          game.characters[HeroOf(Drawer)].health - game'.players[Drawer].fatigue
               ELSE /\ game'.players[Drawer].fatigue = game.players[Drawer].fatigue
                    /\ game'.players[Drawer].deck.left = game.players[Drawer].deck.left - 1
                    /\ game'.characters[HeroOf(Drawer)].health =
                          game.characters[HeroOf(Drawer)].health
            /\ game'.game_ended <=> game'.characters[HeroOf(Drawer)].health <= 0]_vars
    /\ [](game.game_ended =>
            /\ \A p \in PlayerIds : game.players[p].deck.left = 0 /\ game.players[p].minions = <<>>
            /\ \E p \in PlayerIds : /\ game.characters[HeroOf(p)].health <= 0
                                    /\ game.players[p].fatigue > 0
            /\ turn < MaxIdleTurns)

\* the game has ended by a fatigue draw of the player whose turn it was
C12_Witness ==
    /\ call.op = "play_single_turn"
    /\ game.game_ended
    /\ game.players[game.current_player].deck.left = 0
    /\ game.characters[HeroOf(game.current_player)].health <= 0
    /\ game.characters[HeroOf(game.other_player)].health > 0

(***************************************************************************)
(* Claims about the mulligan                                               *)
(***************************************************************************)
DealOf(p) == IF p = 1 THEN FirstDeal ELSE SecondDeal
SlotOf(d, card) == CHOOSE k \in 1..Len(d.cards) : d.cards[k] = card
RejectedCards(p) == {call.hands[p][k] : k \in {j \in 1..DealOf(p) : ~call.keep[p][j]}}
KeptCards(p) == {call.hands[p][k] : k \in {j \in 1..DealOf(p) : call.keep[p][j]}}

\* C10: after pre_game on decks of distinct cards (GameDeckSize cards for
\* the 30 of the game), for every keep choice of both agents: the first
\* player holds exactly 3 cards and the second exactly 4; every kept card is
\* still in its hand; every card not kept is absent from the hand and its
\* deck slot is marked unused; each replacement is a card other than the
\* ones just rejected; each deck's remaining count is the deck size minus
\* that player's hand size.
C10_Mulligan ==
    call.op = "pre_game" =>
        /\ game.exception = "none"
        /\ \A p \in PlayerIds :
            LET hand == game.players[p].hand
                d == game.players[p].deck
            IN /\ Len(hand) = DealOf(p)
               /\ Cardinality(Range(hand)) = Len(hand)
               /\ KeptCards(p) \subseteq Range(hand)
               /\ RejectedCards(p) \cap Range(hand) = {}
               /\ \A card \in RejectedCards(p) : ~d.used[SlotOf(d, card)]
               /\ Cardinality(Range(hand) \ KeptCards(p)) = Cardinality(RejectedCards(p))
               /\ \A card \in Range(hand) : d.used[SlotOf(d, card)]
               /\ d.left = GameDeckSize - Len(hand)
               /\ UsedCount(d) = Len(hand)

\* pre_game has run with the first agent keeping one card of three and the
\* second agent rejecting all four
C10_Witness ==
    /\ call.op = "pre_game"
    /\ call.keep[1] = <<TRUE, FALSE, FALSE>>
    /\ \A k \in 1..SecondDeal : ~call.keep[2][k]
    /\ Len(game.players[2].hand) = SecondDeal

(***************************************************************************)
(* Claims about playing cards, attacking and the end of the game           *)
(***************************************************************************)
\* a hero whose health the call brought to 0 or less
HeroFell == \E p \in PlayerIds :
               game.characters[HeroOf(p)].health > 0 /\ game'.characters[HeroOf(p)].health <= 0

EnclosingCalls == {"attack", "play_card", "_start_turn", "play_single_turn"}

\* C13: when the damage of an attack, of a played card or of a fatigue draw
\* has brought a hero's health to 0 or less, game_ended is true when that
\* attack, play_card or drawing call returns; game_ended never goes back to
\* false; and no turn starts once the game has ended.
C13_HeroDeathEndsGame ==
    [][/\ (call'.op \in EnclosingCalls /\ HeroFell) => game'.game_ended
       /\ game.game_ended => game'.game_ended
       /\ game.game_ended => turn' = turn]_vars

\* the state of the game apart from the record of the call in progress
Frame(g) == [g EXCEPT !.exception = "none", !.log = <<>>]

\* the events a call fired, on any bus
EventsOf(g) == SelectSeq(g.log, LAMBDA e : e[1] = "event")

\* C14: once game_ended is true, every play_card call and every attack call
\* fails with an error, changes nothing of the game state and fires no event.
C14_NoPlayAfterEnd ==
    [][(game.game_ended /\ call'.op \in {"play_card", "attack"}) =>
          /\ game'.exception # "none"
          /\ Frame(game') = Frame(game)
          /\ EventsOf(game') = <<>>]_vars

\* C15: attack() on a character for which can_attack() is false raises the
\* illegal-action error as its first effect: the call fires no event, does not
\* reach choose_target and changes no state.
C15_IllegalAttackFirst ==
    [][(call'.op = "attack" /\ ~can_attack(game, call'.self)) =>
          /\ game'.exception = "GameException"
          /\ game'.log = <<>>
          /\ Frame(game') = Frame(game)]_vars

\* C16: damage(amount, source) on an immune hero or minion changes nothing,
\* neither health, armour, divine shield, dead flag nor pending events, adds
\* nothing to the Game's pending queue and fires no event.
C16_ImmuneDamageNoOp ==
    [][(call'.op = "damage" /\ game.characters[call'.self].immune) =>
          /\ game'.characters[call'.self] = game.characters[call'.self]
          /\ game'.delayed_minions = game.delayed_minions
          /\ EventsOf(game') = <<>>]_vars

PlayedCard == Library(call'.card)

\* C17: play_card fails whenever the game has ended or can_use is false for
\* the current player, and a failing play_card leaves the current player's
\* hand and mana, both boards and both secret lists as they were and fires no
\* event.
C17_FailedPlayChangesNothing ==
    [][call'.op = "play_card" =>
          /\ (game.game_ended \/ ~can_use(game, PlayedCard, game.current_player))
                => game'.exception # "none"
          /\ game'.exception # "none" =>
                /\ \A p \in PlayerIds :
                      /\ game'.players[p].hand = game.players[p].hand
                      /\ game'.players[p].mana = game.players[p].mana
                      /\ game'.players[p].minions = game.players[p].minions
                      /\ game'.players[p].secrets = game.players[p].secrets
                /\ EventsOf(game') = <<>>]_vars

C18_Bounds ==
    \A p \in PlayerIds :
        /\ 0 <= game.players[p].mana
        /\ game.players[p].mana <= game.players[p].max_mana
        /\ game.players[p].max_mana <= MaxMana

\* _start_turn: the player whose turn starts gains a crystal unless it has
\* MaxMana of them, and all its crystals are filled
C18_StartTurn ==
    call'.op = "_start_turn" =>
        LET p == game'.current_player IN
        /\ game'.players[p].max_mana =
              IF game.players[p].max_mana = MaxMana THEN MaxMana ELSE game.players[p].max_mana + 1
        /\ game'.players[p].mana = game'.players[p].max_mana

\* a successful play_card takes exactly the cost, which the player could pay
C18_Play ==
    (call'.op = "play_card" /\ game'.exception = "none") =>
        LET p == game.current_player
            cost == mana_cost(game, PlayedCard, p)
        IN /\ cost <= game.players[p].mana
           /\ game'.players[p].mana = game.players[p].mana - cost

\* C18: with mana filters whose floors are not negative, 0 <= mana <=
\* max_mana <= 10 holds for both players in every reachable state; each
\* _start_turn raises the active player's max_mana by one unless it is 10
\* already and then sets mana to max_mana; each successful play_card lowers
\* the current player's mana by exactly mana_cost(card), which is at most the
\* mana the player had.
C18_Mana == []C18_Bounds /\ [][C18_StartTurn /\ C18_Play]_vars

\* at the cap, a card whose cost a filter changed has just been paid for
C18_Witness ==
    /\ call.op = "play_card"
    /\ game.exception = "none"
    /\ game.players[game.current_player].max_mana = MaxMana
    /\ game.players[game.current_player].mana_filters # <<>>
    /\ Library(call.card).kind = "spell"
    /\ game.players[game.current_player].mana < MaxMana
    /\ turn = MaxTurns

(***************************************************************************)
(* Claims about the order of play                                          *)
(***************************************************************************)
TwoPlayers ==
    /\ game.current_player \in PlayerIds
    /\ game.other_player \in PlayerIds
    /\ game.current_player # game.other_player

\* the constructor's deal, and the player of the first turn
C19_DealAndFirstTurn ==
    /\ call.op = "none" => /\ Len(game.players[1].hand) = FirstDeal
                           /\ Len(game.players[2].hand) = SecondDeal
    /\ turn = 1 => game.current_player = 1

\* C19 as stated: current_player and other_player are always the two distinct
\* players; every _start_turn swaps them; the first player is dealt 3 cards
\* and the second 4; the first turn of start() is the turn of the player
\* dealt 3.
C19_AlwaysDistinct ==
    /\ []TwoPlayers
    /\ []C19_DealAndFirstTurn
    /\ [][call'.op = "_start_turn" =>
             /\ game'.current_player = game.other_player
             /\ game'.other_player = game.current_player]_vars

\* C19, amended: current_player and other_player are the two distinct players
\* from construction until start() makes players[1] the current player, and
\* again from the first _start_turn on; in between, at the head of the loop
\* before the first turn, both are players[1].  Every _start_turn makes the
\* player that was not the current one the current player and the player that
\* was the current one the other player, so consecutive turns are taken by
\* different players.  The deal is 3 and 4 cards, and the first turn is the
\* turn of the player dealt 3.
C19_Turns ==
    /\ [](TwoPlayers \/ (call.op = "start" /\ game.current_player = 2 /\ game.other_player = 2))
    /\ [](turn >= 1 => TwoPlayers)
    /\ []C19_DealAndFirstTurn
    /\ [][call'.op = "_start_turn" =>
             /\ game'.current_player # game.current_player
             /\ game'.other_player = game.current_player]_vars
    /\ [][call'.op = "start" =>
             (game'.current_player = 2 /\ game'.other_player = 2)]_vars

\* the second turn has started: it is the turn of the player dealt 4
C19_Witness ==
    /\ call.op = "_start_turn"
    /\ turn = 2
    /\ game.current_player = 2
    /\ game.other_player = 1

(***************************************************************************)
(* Claims about the death of a minion                                      *)
(***************************************************************************)
\* the first position of an entry in a log, 0 when it is not there
Pos(log, entry) ==
    IF \E k \in 1..Len(log) : log[k] = entry
    THEN CHOOSE k \in 1..Len(log) : log[k] = entry /\ \A j \in 1..(k - 1) : log[j] # entry
    ELSE 0

Count(log, entry) == Cardinality({k \in 1..Len(log) : log[k] = entry})

\* the minions the call in progress marked dead
Died(log) == {m \in 1..Len(game'.characters) :
                 IsMinionObject(game', m) /\ Pos(log, <<"step", "dead", m>>) > 0}

\* dead, then 'minion_died' on the Game, then the deathrattle the minion had
\* (once), then the removal from the board
DeathSteps(log, m) ==
    LET dead == Pos(log, <<"step", "dead", m>>)
        rattle == Pos(log, <<"step", "deathrattle", m>>)
        removed == Pos(log, <<"step", "removed", m>>)
    IN /\ dead < removed
       /\ \E k \in (dead + 1)..(removed - 1) :
             /\ log[k] = <<"event", "minion_died", GameBus>>
             /\ rattle > 0 => k < rattle
       /\ Count(log, <<"step", "deathrattle", m>>) = (IF game.characters[m].deathrattle THEN 1 ELSE 0)
       /\ rattle > 0 => rattle < removed

\* the silence bound to 'died' runs while the minion is still on the board
SilencedOnBoard(log, m) ==
    /\ Pos(log, <<"step", "silence", m>>) > 0
    /\ Pos(log, <<"step", "silence", m>>) < Pos(log, <<"step", "removed", m>>)

\* C20: when a minion dies, the silence bound once to its 'died' event runs
\* before the minion is taken off its owner's board, and the other steps
\* come in this order: marked dead, 'minion_died' fired on the Game, the
\* deathrattle captured at the start of die invoked exactly once if there is
\* one, removal from the board.
C20_DeathOrder ==
    [][\A m \in Died(game'.log) :
          DeathSteps(game'.log, m) /\ SilencedOnBoard(game'.log, m)]_vars


(***************************************************************************)
(* C21: spell power of a player against the minions on its board           *)
(***************************************************************************)
RECURSIVE SumSpellPower(_, _, _)
SumSpellPower(g, board, k) ==
    IF k > Len(board) THEN 0
    ELSE g.characters[board[k]].spell_power + SumSpellPower(g, board, k + 1)

BoardSpellPower(g, p) == SumSpellPower(g, g.players[p].minions, 1)

\* C21: between calls, each player's spell_power equals the sum of the
\* spell_power of the minions on that player's board, after any sequence of
\* add_to_board, silence, minion deaths and flushes of delayed events.
C21_SpellPowerIsBoardSum ==
    \A p \in DOMAIN game.players :
        game.players[p].spell_power = BoardSpellPower(game, p)


(***************************************************************************)
(* C22: board indices                                                      *)
(***************************************************************************)
\* C22: after every add_to_board with an index in 0..board size and after
\* every death or remove_from_board, in any interleaving (a battlecry that
\* kills a friendly minion while the new minion is being added included),
\* the minion at position i of a player's board has index i.
C22_IndicesMatchPositions ==
    \A p \in DOMAIN game.players :
        \A i \in 1..Len(game.players[p].minions) :
            game.characters[game.players[p].minions[i]].index = i - 1


(***************************************************************************)
(* C23: the ending player's characters after _end_turn                     *)
(***************************************************************************)
\* the hero of player p and the minions on p's board
Side(g, p) == {HeroOf(p)} \cup Range(g.players[p].minions)

\* C23: when _end_turn returns, the hero of the player whose turn ended and
\* every minion on that player's board are active and have used_wind_fury
\* false.
C23_EndTurnRearms ==
    [][call'.op = "_end_turn" =>
          \A c \in Side(game', game.current_player) :
              /\ game'.characters[c].active
              /\ ~game'.characters[c].used_wind_fury]_vars


(***************************************************************************)
(* C24: stealth of the attacker                                            *)
(***************************************************************************)
\* C24: when attack returns without an exception the attacker's stealth is
\* false on every path, the path abandoned because the attacker died from
\* the reactions to the attack included.
C24_AttackEndsStealth ==
    [][(call'.op = "attack" /\ game'.exception = "none") =>
          ~game'.characters[call'.self].stealth]_vars


(***************************************************************************)
(* C25: 'did_damage' and the kind of physical damage                       *)
(***************************************************************************)
\* the attack that returned reduced the health of its target
AttackHurt ==
    /\ call'.op = "attack"
    /\ call'.exchanged
    /\ game'.characters[call'.target].health < game.characters[call'.target].health

\* C25: every damage that reduces health makes 'did_damage' reach its
\* source, as a delayed event when the source is a Minion and at once when
\* it is a Hero or a Player; so a hero that attacks receives 'did_damage',
\* and the physical damage dealt by a hero fires the player-damage
\* sub-event, not the minion-damage one.
C25_DidDamageReachesSource ==
    [][AttackHurt =>
          IF IsMinionObject(game', call'.self)
          THEN Count(game'.log, <<"delay", "did_damage", call'.self>>) > 0
          ELSE /\ Count(game'.log, <<"event", "did_damage", call'.self>>) > 0
               /\ Count(game'.log, <<"event", "player_damaged", call'.target>>) > 0
               /\ Count(game'.log, <<"event", "minion_damaged", call'.target>>) = 0]_vars

\* the part of C25 about minions as sources
C25_MinionSource ==
    [][(AttackHurt /\ IsMinionObject(game', call'.self)) =>
          Count(game'.log, <<"delay", "did_damage", call'.self>>) > 0]_vars


(***************************************************************************)
(* C26: delayed events                                                     *)
(***************************************************************************)
DelayedKinds == {"damaged", "did_damage", "died"}

Names(entries) == AsSeq([k \in 1..Len(entries) |-> entries[k][2]])

\* the delayed events of c the call scheduled, in the order of scheduling
Scheduled(log, c) ==
    Names(SelectSeq(log, LAMBDA e : e[1] = "delay" /\ e[3] = c))

\* the delayed events of c the call dispatched, in the order of dispatch
Dispatched(log, c) ==
    Names(SelectSeq(log, LAMBDA e : e[1] = "event" /\ e[3] = c /\ e[2] \in DelayedKinds))

Pending(g, c) == IF c \in DOMAIN g.characters THEN g.characters[c].delayed ELSE <<>>

\* C26: delayed_trigger dispatches nothing when it schedules; activate_delayed
\* dispatches the pending events of a combatant in the order they were
\* scheduled, the events scheduled during the flush included, and leaves its
\* pending list empty; when a play_card that was not cancelled returns, no
\* combatant has a pending delayed event and the queue of the Game is empty.
C26_DelayedEvents ==
    [][game'.exception = "none" =>
          /\ \A c \in DOMAIN game'.characters :
                Dispatched(game'.log, c) \o Pending(game', c)
                    = Pending(game, c) \o Scheduled(game'.log, c)
          /\ call'.op = "damage" =>
                \A c \in DOMAIN game'.characters : Dispatched(game'.log, c) = <<>>
          /\ (call'.op = "attack" /\ call'.exchanged) =>
                Pending(game', call'.self) = <<>>
          /\ call'.op = "play_card" =>
                /\ \A c \in DOMAIN game'.characters : Pending(game', c) = <<>>
                /\ game'.delayed_minions = <<>>]_vars

\* an attacker whose 'did_damage' handler damaged it during its own flush:
\* the 'damaged' scheduled during the flush was dispatched by the same flush
C26_Witness ==
    /\ call.op = "attack"
    /\ call.exchanged
    /\ game.exception = "none"
    /\ \E i, j, k \in 1..Len(game.log) :
          /\ i < j /\ j < k
          /\ game.log[i] = <<"event", "did_damage", call.self>>
          /\ game.log[j] = <<"delay", "damaged", call.self>>
          /\ game.log[k] = <<"event", "damaged", call.self>>
    /\ Pending(game, call.self) = <<>>

\* a play_card that flushed the queue of the Game
C26_PlayFlushed ==
    /\ call.op = "play_card"
    /\ game.exception = "none"
    /\ \E k \in 1..Len(game.log) :
          game.log[k][1] = "event" /\ game.log[k][2] \in DelayedKinds


(***************************************************************************)
(* C27: the Game's queue of combatants with delayed events                 *)
(***************************************************************************)
\* C27: between calls, delayed_minions holds exactly the combatants that
\* have delayed events not yet flushed; a combatant whose events were flushed
\* at the end of an attack or of a fatigue draw is no longer in the queue.
C27_QueueIsUnflushed ==
    game.exception = "none" =>
        Range(game.delayed_minions) =
            {c \in DOMAIN game.characters : Pending(game, c) # <<>>}


(***************************************************************************)
(* C28: silence against increase_attack, increase_health, decrease_health  *)
(***************************************************************************)
MaxBuffs == 3
BuffAmounts == {1, 2}

\* an effect's code changes the statistics of a board minion; each change
\* binds one more silence closure
IncreaseAttack(m, amount) ==
    /\ phase = "turn"
    /\ BoardMinion(m)
    /\ Len(game.characters[m].silencers) < MaxBuffs
    /\ game' = increase_attack(Began, m, amount)
    /\ call' = [CallOf("increase_attack") EXCEPT !.n = call.n, !.self = m, !.amount = amount]
    /\ UNCHANGED <<phase, turn, thaw, obs, busVars, deckVars>>

IncreaseHealth(m, amount) ==
    /\ phase = "turn"
    /\ BoardMinion(m)
    /\ Len(game.characters[m].silencers) < MaxBuffs
    /\ game' = increase_health(Began, m, amount)
    /\ call' = [CallOf("increase_health") EXCEPT !.n = call.n, !.self = m, !.amount = amount]
    /\ UNCHANGED <<phase, turn, thaw, obs, busVars, deckVars>>

DecreaseHealth(m, amount) ==
    /\ phase = "turn"
    /\ BoardMinion(m)
    /\ Len(game.characters[m].silencers) < MaxBuffs
    /\ game' = decrease_health(Began, m, amount)
    /\ call' = [CallOf("decrease_health") EXCEPT !.n = call.n, !.self = m, !.amount = amount]
    /\ UNCHANGED <<phase, turn, thaw, obs, busVars, deckVars>>

Heal(m, amount) ==
    /\ phase = "turn"
    /\ call.n < MaxTurnCalls
    /\ BoardMinion(m)
    /\ game' = heal(Began, m, amount)
    /\ call' = [CallOf("heal") EXCEPT !.n = call.n + 1, !.self = m, !.amount = amount]
    /\ UNCHANGED <<phase, turn, thaw, obs, busVars, deckVars>>

NextSilence ==
    \/ \E m \in Characters, amount \in BuffAmounts : IncreaseAttack(m, amount)
    \/ \E m \in Characters, amount \in BuffAmounts : IncreaseHealth(m, amount)
    \/ \E m \in Characters, amount \in BuffAmounts : DecreaseHealth(m, amount)
    \/ \E m \in Characters, amount \in BuffAmounts : Heal(m, amount)
    \/ \E m \in Characters, amount \in Amounts : Damage(m, amount)
    \/ \E m \in Characters : Silence(m)

InitSilence ==
    /\ events = <<>>
    /\ handlers = <<>>
    /\ stack = <<>>
    /\ invoked = <<>>
    /\ raised = FALSE
    /\ deck = IdleDeck
    /\ history = <<>>
    /\ game \in {CombatPosition(<<m1>>, <<>>, 0) : m1 \in {Plain, Taunt}}
    /\ call = NoCall
    /\ phase = "turn"
    /\ turn = 1
    /\ thaw = AsSeq([c \in 1..Len(game.characters) |-> 0])
    /\ obs = [attacks |-> AsSeq([c \in 1..Len(thaw) |-> 0])]

SpecSilence == InitSilence /\ [][NextSilence]_vars

\* what the silence closures bound to a character add up to
RECURSIVE Bonus(_, _, _)
Bonus(silencers, kind, k) ==
    IF k > Len(silencers) THEN 0
    ELSE (IF silencers[k].kind = kind THEN silencers[k].amount ELSE 0)
         + Bonus(silencers, kind, k + 1)

\* the statistics a character had before its changes
BaseAttack(ch) == ch.attack_power - Bonus(ch.silencers, "attack", 1)
BaseMaxHealth(ch) ==
    ch.max_health - Bonus(ch.silencers, "health_up", 1) + Bonus(ch.silencers, "health_down", 1)

Stats(ch) == <<ch.attack_power, ch.max_health, ch.health>>

\* C28: after any sequence of increase_attack, increase_health and
\* decrease_health, interleaved with damage and heal, one silence() restores
\* attack_power and max_health to what they were before the changes, changes
\* health only by clamping it down to the restored max_health, and a second
\* silence changes nothing.
C28_SilenceRestores ==
    [][(call'.op = "silence" /\ game'.exception = "none") =>
          LET before == game.characters[call'.self]
              after == game'.characters[call'.self]
              again == silence(game', call'.self).characters[call'.self]
          IN /\ after.attack_power = BaseAttack(before)
             /\ after.max_health = BaseMaxHealth(before)
             /\ after.health = IF before.health > after.max_health
                               THEN after.max_health ELSE before.health
             /\ Stats(again) = Stats(after)]_vars

\* the parts of C28 that do not depend on the order of the closures
C28_AttackAndMaxHealth ==
    [][(call'.op = "silence" /\ game'.exception = "none") =>
          LET before == game.characters[call'.self]
              after == game'.characters[call'.self]
              again == silence(game', call'.self).characters[call'.self]
          IN /\ after.attack_power = BaseAttack(before)
             /\ after.max_health = BaseMaxHealth(before)
             /\ Stats(again) = Stats(after)]_vars

====
